---- MODULE Spec2Model ----
(***************************************************************************)
(* MicroLog: the asynchronous sink AsyncHandler of src/microlog/handlers.py *)
(* (an unbounded queue.Queue, a logging QueueHandler on the producer side  *)
(* and a logging QueueListener thread on the consumer side) modelled as a  *)
(* state machine of producer threads, caller threads (start, stop,         *)
(* get_queue_handler) and listener threads (specification Spec); the trace *)
(* context store and the trace scope of src/microlog/context.py with the   *)
(* TraceContextFilter of src/microlog/core.py (specification TraceSpec);   *)
(* the functions of a TraceContext (specification CtxSpec); the rotating   *)
(* file handler _RotatingFileHandler (specification RotSpec); the filters  *)
(* of src/microlog/filters.py (RateSpec, SampleSpec); the console sink     *)
(* (ConsoleSpec); the convenience constructors of core.py (SetupSpec); an  *)
(* emit from a signal handler on the sink's queue.Queue (SigSpec); the     *)
(* rate limit of the SMTP sink (SmtpSpec); the lifetime of a sink's        *)
(* wrapper object (LifeSpec); RateLimitFilter.filter called by several     *)
(* threads (RaceSpec); the timestamp of a JSON line (StampSpec).           *)
(***************************************************************************)
EXTENDS Naturals, Integers, Sequences, FiniteSets, TLC

\* ------------------------------------------------------------------ bounds
MaxEmit == 3        \* records the producers emit, all together
MaxCalls == 3       \* start/stop/get_queue_handler calls the callers make, all together
MaxWait == 1        \* iterations of stop()'s drain loop (stands for 30.0 / 0.05)
MaxInputId == 2     \* distinct non-empty strings an input identifier is drawn from
MaxBackup == 3      \* largest backup_count a file sink is configured with
MaxBytes == 2       \* largest max_bytes a file sink is configured with
MaxLines == 6       \* records a file sink is given
MaxFail == 1        \* rotations of a file sink that fail with an OSError
MaxTraceOps == 4    \* trace scopes the tasks enter and records they log, all together
MaxPerInterval == 2 \* largest max_per_interval a rate-limit filter is configured with
MaxInterval == 2    \* largest interval_seconds of a rate-limit filter, in clock ticks
MaxTime == 3        \* clock ticks that pass while a rate-limit filter is in use
MaxFilterCalls == 4 \* records passed through a rate-limit filter
MaxSampleCalls == 2 \* records passed through a sampling filter
MaxConsole == 3     \* records a console sink's consumer dequeues
MaxSinks == 3       \* sinks the convenience constructors create, all together
MaxSigEmit == 2     \* records the main thread emits outside signal handlers
MaxSignals == 2     \* signals delivered to the main thread
MaxRateLimit == 2   \* largest rate_limit of an SMTP sink, in clock ticks
MaxSmtpCalls == 4   \* calls of the SMTP sink's _should_send
MaxSmtpTime == 2    \* clock ticks that pass while the SMTP sink is in use
MaxLifeEmit == 2    \* records a logger emits to the sink of the lifetime model
MaxRaceCalls == 3   \* filter calls the producer threads make concurrently
MaxStampEmit == 3   \* records the producers emit to the JSON sink
MaxStampTime == 3   \* clock ticks that pass while the JSON sink is in use

Producers == {"p1", "p2"}
Callers == {"c1", "c2"}

\* two cooperative (asyncio) tasks on one thread and a plain thread
Tasks == {"a1", "a2", "b1"}
Threads == {"T1", "T2"}
ThreadOf == [t \in Tasks |-> IF t = "b1" THEN "T2" ELSE "T1"]
ListenerIds == 1 .. MaxCalls

\* a queue capacity smaller than the number of records the producers emit
\* (stands for the capacity of 8192 that the design document gives the queue)
QueueCapacity == MaxEmit - 1

\* QueueListener._sentinel
None == <<"None", 0>>

VARIABLES
    queue,              \* AsyncHandler._queue: records and sentinels, head first
    started,            \* AsyncHandler._started
    listener,           \* AsyncHandler._listener: 0 = None, else the listener's id
    lock,               \* AsyncHandler._lock: "free" or the caller holding it
    atexit_registered,  \* AsyncHandler._atexit_registered
    thr,                \* state of each listener's _monitor thread
    cur,                \* the record a _monitor thread holds between dequeue and handle
    qh,                 \* whether get_queue_handler() has returned a QueueHandler
    flushCalls,         \* calls of handler.flush() made by stop()
    closeCalls,         \* calls of handler.close() made by stop()
    wopen,              \* whether the writer's file handle is open (closed by handler.close())
    pc,                 \* position of each caller thread
    calls,              \* calls the callers have made
    total_waited,       \* stop()'s drain loop counter, per caller
    final_qsize,        \* stop()'s final_qsize, per caller
    enqLog,             \* history: every record in the order emit() was called with it
    handled,            \* history: every record in the order it reached handler.handle
    snap,               \* history: how many records were enqueued when a caller invoked stop()
    cvar,               \* context.py _context_var: its value in each task's own Context
    tlocal,             \* context.py _thread_local.context of each thread
    scopes,             \* the trace objects whose with-block is open in each task, innermost last
    nextId,             \* how many identifiers _generate_id() has returned
    dicts,              \* the dict objects that serve as extra maps, by reference
    logq,               \* records a logger with the TraceContextFilter has enqueued
    written,            \* history: the records the consumer has formatted and written
    args,               \* the arguments of a trace(...) call: the inputs of the context functions
    op,                 \* which context function has been applied to the inputs
    outCtx,             \* the TraceContext the function returned
    outHeaders,         \* the header mapping the function returned
    disk,               \* the files of a file sink's directory: name -> lines
    backup_count,       \* _RotatingFileHandler.backup_count
    compress,           \* _RotatingFileHandler.compress
    max_bytes,          \* _RotatingFileHandler.max_bytes
    nlines,             \* records the file sink has been given
    rotations,          \* history: how many times _rotate() has run to its end
    stream,             \* whether _RotatingFileHandler._stream is an open file (not None)
    failures,           \* history: how many times _rotate() has raised
    reclen,             \* history: the serialized length in bytes of each record given
    now,                \* what time.time() returns, in clock ticks
    max_per_interval,   \* RateLimitFilter.max_per_interval
    interval_seconds,   \* RateLimitFilter.interval_seconds, in clock ticks
    _state,             \* RateLimitFilter._state: key -> deque of admission timestamps
    sample_rate,        \* SamplingFilter.sample_rate, in tenths
    level_overrides,    \* SamplingFilter.level_overrides: levelno -> rate in tenths
    flog,               \* history: the filter calls made so far and how each ended
    split_errors,       \* AsyncConsoleHandler(split_errors=...)
    console_level,      \* the level of the console sink's writer (handler.setLevel(level))
    streams,            \* what has been written to each stream of the console sink
    clog,               \* history: the levels of the records the consumer has dequeued
    sinks,              \* the AsyncHandler objects the constructors have created, by kind
    attached,           \* logger name -> the sinks whose QueueHandler is in logger.handlers
    created,            \* the sinks the last constructor call created
    ret,                \* what the last constructor call returned
    call,               \* the last constructor call: its name and arguments
    mutex,              \* who holds queue.Queue.mutex, the lock of the sink's queue
    mpc,                \* where the main thread's own emit of a record is
    hpc,                \* where the emit inside the running signal handler is
    lpc,                \* where the consumer thread's queue.get is
    squeue,             \* the records in the sink's queue
    nemit,              \* how many records the main thread has begun to emit
    nsignal,            \* how many signals have been delivered
    rate_limit,         \* _SMTPHandler.rate_limit, in clock ticks
    _last_sent,         \* _SMTPHandler._last_sent: <<key, time>> pairs in insertion order
    wall,               \* what datetime.now().timestamp() returns, in clock ticks
    spc,                \* where each thread's _should_send call is
    skey,               \* the error signature of the record each thread is checking
    tnow,               \* the local variable now of each thread's _should_send call
    approved,            \* history: <<key, time>> of every call that returned True
    wrapper,            \* the sink's AsyncHandler object: "none", "held", "unreachable", "collected"
    made_by,            \* what created the sink: a convenience constructor or the application
    life_started,       \* that sink's _started
    consumer,           \* that sink's listener thread: "unborn", "running", "exited"
    life_queue,         \* that sink's queue: record numbers and sentinels, head first
    stop_pc,            \* where the one stop() call on that sink is: "idle", "wait", "join"
    stopper,            \* who made the stop() call that took effect
    life_written,       \* history: the records that sink's consumer has written
    life_emitted,       \* how many records the logger has emitted to that sink
    at_exit,            \* the process has begun to exit
    writer_open,         \* that sink's writer has not been closed
    fpc,                \* where each producer thread's RateLimitFilter.filter call is
    fkey,               \* the local variable key of each thread's filter call
    fnow,                \* the local variable now of each thread's filter call
    clock,              \* the wall clock of the JSON sink's model
    timestamp_format,   \* JSONFormatter.timestamp_format
    json_queue,         \* the JSON sink's queue: records, head first
    json_emitted,       \* history: the records the producers have emitted, in order
    json_lines          \* history: the JSON lines the consumer has written, in order

sinkVars == <<queue, started, listener, atexit_registered, thr, cur, flushCalls,
              closeCalls, wopen, handled>>
pipeVars == <<queue, started, listener, lock, atexit_registered, thr, cur, qh, flushCalls,
              closeCalls, wopen, pc, calls, total_waited, final_qsize, enqLog, handled, snap>>
traceVars == <<cvar, tlocal, scopes, nextId, dicts, logq, written>>
ctxVars == <<args, op, outCtx, outHeaders>>
rotVars == <<disk, backup_count, compress, max_bytes, nlines, rotations, stream,
             failures, reclen>>
fltVars == <<now, max_per_interval, interval_seconds, _state, sample_rate,
             level_overrides, flog>>

conVars == <<split_errors, console_level, streams, clog>>

\* the variables of the filters and of the logger facade
setupVars == <<sinks, attached, created, ret, call>>
sigVars == <<mutex, mpc, hpc, lpc, squeue, nemit, nsignal>>
smtpVars == <<rate_limit, _last_sent, wall, spc, skey, tnow, approved>>
lifeVars == <<wrapper, made_by, life_started, consumer, life_queue, stop_pc, stopper, life_written, life_emitted, at_exit, writer_open>>
raceVars == <<fpc, fkey, fnow>>
stampVars == <<clock, timestamp_format, json_queue, json_emitted, json_lines>>
facadeVars == <<fltVars, conVars, setupVars, sigVars, smtpVars, lifeVars, raceVars, stampVars>>

\* what the operations of the asynchronous sink leave alone
notPipeVars == <<traceVars, ctxVars, rotVars, facadeVars>>

\* what the trace scopes and the logging tasks leave alone
notTraceVars == <<pipeVars, ctxVars, rotVars, facadeVars>>

\* what a call of a context function leaves alone
notCtxVars == <<pipeVars, cvar, tlocal, scopes, logq, written, rotVars, facadeVars>>

\* what an emit of the rotating file handler leaves alone
notRotVars == <<pipeVars, traceVars, ctxVars, facadeVars>>

\* what a call of a filter leaves alone
notFltVars == <<pipeVars, traceVars, ctxVars, rotVars, conVars, setupVars, sigVars, smtpVars, lifeVars, raceVars, stampVars>>

\* what the console sink's writer leaves alone
notConVars == <<pipeVars, traceVars, ctxVars, rotVars, fltVars, setupVars, sigVars, smtpVars, lifeVars, raceVars, stampVars>>

\* what a convenience constructor leaves alone
notSetupVars == <<pipeVars, traceVars, ctxVars, rotVars, fltVars, conVars, sigVars, smtpVars, lifeVars, raceVars, stampVars>>

\* what a call of the SMTP sink's _should_send leaves alone
notSmtpVars == <<pipeVars, traceVars, ctxVars, rotVars, fltVars, conVars, setupVars, sigVars, lifeVars, raceVars, stampVars>>

\* what a step of a concurrent filter call leaves alone besides the filters' state
notRaceVars == <<pipeVars, traceVars, ctxVars, rotVars, conVars, setupVars, sigVars, smtpVars, lifeVars, stampVars>>

\* what the JSON sink's producers and consumer leave alone
notStampVars == <<pipeVars, traceVars, ctxVars, rotVars, fltVars, conVars, setupVars, sigVars, smtpVars, lifeVars, raceVars>>

\* what the lifetime of a sink's wrapper leaves alone
notLifeVars == <<pipeVars, traceVars, ctxVars, rotVars, fltVars, conVars, setupVars, sigVars, smtpVars, raceVars, stampVars>>

\* what the steps of an emit and of the consumer's get leave alone
notSigVars == <<pipeVars, traceVars, ctxVars, rotVars, fltVars, conVars, setupVars, smtpVars, lifeVars, raceVars, stampVars>>

vars == <<pipeVars, traceVars, ctxVars, rotVars, facadeVars>>

\* ----------------------------------------- handlers.py: file names on disk
\* self.filename, the active file
Active == <<"active", 0>>

\* _get_backup_name(index): Path(f"{self.filename}.{index}")
_get_backup_name(index) == <<"plain", index>>

\* Path(str(_get_backup_name(index)) + ".gz")
GzName(index) == <<"gz", index>>

Range(s) == {s[i] : i \in 1 .. Len(s)}

\* ---------------------------------------------------- context.py: values
\* a Python str: Str(0) is the empty string, Str(n) with n > 0 a non-empty one
Str(n) == <<"str", n>>

\* Python truthiness of an Optional[str]: None and "" are falsy
Truthy(v) == v # None /\ v # Str(0)

\* _generate_id(): uuid4().hex[:16], an identifier no context or carrier holds
\* yet; k is the number of identifiers generated before
_generate_id(k) == Str(MaxInputId + k + 1)

\* a dict as a function from its keys; d.get(key, default)
Get(d, key, default) == IF key \in DOMAIN d THEN d[key] ELSE default

\* dict.update: the entries of b replace those of a
Update(a, b) ==
    [k \in DOMAIN a \cup DOMAIN b |-> IF k \in DOMAIN b THEN b[k] ELSE a[k]]

\* the empty dict; also a header carrier that is None or {} ("if headers:")
EmptyDict == <<>>

\* the dataclass TraceContext (started_at, a wall-clock reading, left out);
\* extra is a reference to a dict object
TraceContext(trace_id, span_id, parent_span_id, correlation_id, session_id, extra) ==
    [trace_id |-> trace_id, span_id |-> span_id, parent_span_id |-> parent_span_id,
     correlation_id |-> correlation_id, session_id |-> session_id, extra |-> extra]

\* Python's None where a TraceContext is expected
NoContext == TraceContext(None, None, None, None, None, 0)

\* the arguments of trace(...): a header carrier that is None is EmptyDict, a
\* parent that is None is NoContext
TraceArgs(trace_id, correlation_id, session_id, headers, parent, extra) ==
    [trace_id |-> trace_id, correlation_id |-> correlation_id,
     session_id |-> session_id, headers |-> headers, parent |-> parent,
     extra |-> extra]

\* child_span whose extra is the parent's dict object itself
child_span_shared_extra(self, span_id, ref) ==
    TraceContext(self.trace_id, span_id, self.span_id, self.correlation_id,
                 self.session_id, self.extra)

\* TraceContext.child_span: span_id is the identifier _generate_id() returned,
\* ref the dict object self.extra.copy() created
child_span(self, span_id, ref) ==
    TraceContext(self.trace_id, span_id, self.span_id, self.correlation_id,
                 self.session_id, ref)

\* TraceContext.to_dict: extra is the content of self.extra
to_dict(self, extra) ==
    LET keys == {"trace_id", "span_id"}
                \cup (IF Truthy(self.parent_span_id) THEN {"parent_span_id"} ELSE {})
                \cup (IF Truthy(self.correlation_id) THEN {"correlation_id"} ELSE {})
                \cup (IF Truthy(self.session_id) THEN {"session_id"} ELSE {})
    IN  Update([k \in keys |-> self[k]], extra)

\* Thread.is_alive() of a listener's _monitor thread
Alive(i) == i \in ListenerIds /\ thr[i] \in {"running", "handling"}

LiveThreads == {i \in ListenerIds : Alive(i)}

\* the id the next QueueListener object gets
NewListener == Cardinality({i \in ListenerIds : thr[i] # "unborn"}) + 1

\* the sink right after AsyncHandler.__init__
PipeInit ==
    /\ queue = <<>>
    /\ started = FALSE
    /\ listener = 0
    /\ lock = "free"
    /\ atexit_registered = FALSE
    /\ thr = [i \in ListenerIds |-> "unborn"]
    /\ cur = [i \in ListenerIds |-> None]
    /\ qh = FALSE
    /\ flushCalls = 0
    /\ closeCalls = 0
    /\ wopen = TRUE
    /\ pc = [c \in Callers |-> "idle"]
    /\ calls = 0
    /\ total_waited = [c \in Callers |-> 0]
    /\ final_qsize = [c \in Callers |-> 0]
    /\ enqLog = <<>>
    /\ handled = <<>>
    /\ snap = [c \in Callers |-> 0]

\* the context store of a process in which no trace scope was entered yet
TraceIdle ==
    /\ cvar = [t \in Tasks |-> NoContext]
    /\ tlocal = [h \in Threads |-> NoContext]
    /\ scopes = [t \in Tasks |-> <<>>]
    /\ nextId = 0
    /\ dicts = <<>>
    /\ logq = <<>>
    /\ written = <<>>

\* no context function has been called
CtxIdle ==
    /\ args = TraceArgs(None, None, None, EmptyDict, NoContext, EmptyDict)
    /\ op = "idle"
    /\ outCtx = NoContext
    /\ outHeaders = EmptyDict

\* a file sink that has been given no record: _RotatingFileHandler.__init__
\* has opened the active file (mode "a") in an empty directory
RotIdle ==
    /\ disk = [n \in {Active} |-> <<>>]
    /\ backup_count = 0
    /\ compress = FALSE
    /\ max_bytes = 0
    /\ nlines = 0
    /\ rotations = 0
    /\ stream = TRUE
    /\ failures = 0
    /\ reclen = <<>>

\* filters.py: a RateLimitFilter and a SamplingFilter through which no record
\* has passed; rates are in tenths, 10 standing for 1.0
FltIdle ==
    /\ now = 0
    /\ max_per_interval = 1
    /\ interval_seconds = 1
    /\ _state = <<>>
    /\ sample_rate = 10
    /\ level_overrides = <<>>
    /\ flog = <<>>

\* handlers.py: AsyncConsoleHandler() with its defaults, nothing written yet
ConIdle ==
    /\ split_errors = FALSE
    /\ console_level = 10
    /\ streams = [stdout |-> <<>>, stderr |-> <<>>]
    /\ clog = <<>>

\* the names of the loggers the constructors configure
LoggerNames == {"app", "db"}

\* a value returned by no call
NoReturn == [fn |-> "none", logger |-> "", handles |-> {}]

\* no call made
NoCall == [fn |-> "none", name |-> "", console |-> FALSE, file_path |-> FALSE]

\* core.py: no convenience constructor has been called
SetupIdle ==
    /\ sinks = <<>>
    /\ attached = [n \in LoggerNames |-> <<>>]
    /\ created = {}
    /\ ret = NoReturn
    /\ call = NoCall

\* handlers.py: a started sink with an empty queue.Queue(-1), no emit under
\* way and no signal handler running
SigIdle ==
    /\ mutex = "free"
    /\ mpc = "idle"
    /\ hpc = "none"
    /\ lpc = "idle"
    /\ squeue = <<>>
    /\ nemit = 0
    /\ nsignal = 0

\* the threads that call the SMTP sink's _should_send
SmtpThreads == {"s1", "s2"}

\* the clock reading at which the model starts: the present is further from
\* the epoch than any rate_limit, so "now - 0" is never below rate_limit
Epoch == MaxRateLimit

\* handlers.py: an _SMTPHandler with an empty _last_sent and no call under way
SmtpIdle ==
    /\ rate_limit = 0
    /\ _last_sent = <<>>
    /\ wall = Epoch
    /\ spc = [t \in SmtpThreads |-> "idle"]
    /\ skey = [t \in SmtpThreads |-> ""]
    /\ tnow = [t \in SmtpThreads |-> 0]
    /\ approved = <<>>

\* handlers.py: no sink has been created
LifeIdle ==
    /\ wrapper = "none"
    /\ made_by = "none"
    /\ life_started = FALSE
    /\ consumer = "unborn"
    /\ life_queue = <<>>
    /\ stop_pc = "idle"
    /\ stopper = "none"
    /\ life_written = <<>>
    /\ life_emitted = 0
    /\ at_exit = FALSE
    /\ writer_open = TRUE

\* the producer threads that log through one rate-limit filter
RaceThreads == {"p1", "p2"}

\* filters.py: no thread is inside RateLimitFilter.filter
RaceIdle ==
    /\ fpc = [t \in RaceThreads |-> "idle"]
    /\ fkey = [t \in RaceThreads |-> ""]
    /\ fnow = [t \in RaceThreads |-> 0]

\* formatter.py: a JSONFormatter with its defaults, nothing emitted
StampIdle ==
    /\ clock = 0
    /\ timestamp_format = "iso"
    /\ json_queue = <<>>
    /\ json_emitted = <<>>
    /\ json_lines = <<>>

FacadeIdle == FltIdle /\ ConIdle /\ SetupIdle /\ SigIdle /\ SmtpIdle /\ LifeIdle /\ RaceIdle /\ StampIdle

Init == PipeInit /\ TraceIdle /\ CtxIdle /\ RotIdle /\ FacadeIdle

\* ------------------------------------------------------------- producers
\* how many records producer p has emitted so far
Emitted(p) == Cardinality({k \in 1 .. Len(enqLog) : enqLog[k][1] = p})

\* Emit on a queue of QueueCapacity slots whose put waits for a free slot
EmitBlocking(p) ==
    /\ qh
    /\ Len(enqLog) < MaxEmit
    /\ Len(queue) < QueueCapacity
    /\ queue' = Append(queue, <<p, Emitted(p) + 1>>)
    /\ enqLog' = Append(enqLog, <<p, Emitted(p) + 1>>)
    /\ UNCHANGED <<started, listener, lock, atexit_registered, thr, cur, qh, flushCalls,
                   closeCalls, wopen, pc, calls, total_waited, final_qsize, handled, snap,
                   notPipeVars>>

\* Emit on a queue of QueueCapacity slots that discards the record when full
EmitDropNewest(p) ==
    /\ qh
    /\ Len(enqLog) < MaxEmit
    /\ queue' = IF Len(queue) < QueueCapacity
                   THEN Append(queue, <<p, Emitted(p) + 1>>)
                   ELSE queue
    /\ enqLog' = Append(enqLog, <<p, Emitted(p) + 1>>)
    /\ UNCHANGED <<started, listener, lock, atexit_registered, thr, cur, qh, flushCalls,
                   closeCalls, wopen, pc, calls, total_waited, final_qsize, handled, snap,
                   notPipeVars>>

\* QueueHandler.emit -> enqueue -> queue.put_nowait on the unbounded queue
Emit(p) ==
    /\ qh
    /\ Len(enqLog) < MaxEmit
    /\ queue' = Append(queue, <<p, Emitted(p) + 1>>)
    /\ enqLog' = Append(enqLog, <<p, Emitted(p) + 1>>)
    /\ UNCHANGED <<started, listener, lock, atexit_registered, thr, cur, qh, flushCalls,
                   closeCalls, wopen, pc, calls, total_waited, final_qsize, handled, snap,
                   notPipeVars>>

\* ------------------------------------------------------------- consumer
\* Dequeue taking the newest item instead of the oldest
DequeueLifo(i) ==
    /\ thr[i] = "running"
    /\ queue # <<>>
    /\ queue' = SubSeq(queue, 1, Len(queue) - 1)
    /\ IF queue[Len(queue)] = None
          THEN /\ thr' = [thr EXCEPT ![i] = "exited"]
               /\ cur' = cur
          ELSE /\ thr' = [thr EXCEPT ![i] = "handling"]
               /\ cur' = [cur EXCEPT ![i] = queue[Len(queue)]]
    /\ UNCHANGED <<started, listener, lock, atexit_registered, qh, flushCalls, closeCalls, wopen,
                   pc, calls, total_waited, final_qsize, enqLog, handled, snap,
                   notPipeVars>>

\* QueueListener._monitor: record = self.dequeue(True); the sentinel ends the thread
Dequeue(i) ==
    /\ thr[i] = "running"
    /\ queue # <<>>
    /\ queue' = Tail(queue)
    /\ IF Head(queue) = None
          THEN /\ thr' = [thr EXCEPT ![i] = "exited"]
               /\ cur' = cur
          ELSE /\ thr' = [thr EXCEPT ![i] = "handling"]
               /\ cur' = [cur EXCEPT ![i] = Head(queue)]
    /\ UNCHANGED <<started, listener, lock, atexit_registered, qh, flushCalls, closeCalls, wopen,
                   pc, calls, total_waited, final_qsize, enqLog, handled, snap,
                   notPipeVars>>

\* QueueListener.handle -> handler.handle(record) returns: the record was
\* written, or the writer's emit caught its own failure (handleError)
Handle(i) ==
    /\ thr[i] = "handling"
    /\ handled' = Append(handled, cur[i])
    /\ thr' = [thr EXCEPT ![i] = "running"]
    /\ cur' = [cur EXCEPT ![i] = None]
    /\ UNCHANGED <<queue, started, listener, lock, atexit_registered, qh, flushCalls,
                   closeCalls, wopen, pc, calls, total_waited, final_qsize, enqLog, snap,
                   notPipeVars>>

\* handler.handle(record) raises (the wrapped handler is any logging.Handler,
\* and one whose emit lets an exception escape raises here): _monitor catches
\* queue.Empty only, so the exception ends the thread
HandleRaise(i) ==
    /\ thr[i] = "handling"
    /\ handled' = Append(handled, cur[i])
    /\ thr' = [thr EXCEPT ![i] = "died"]
    /\ cur' = [cur EXCEPT ![i] = None]
    /\ UNCHANGED <<queue, started, listener, lock, atexit_registered, qh, flushCalls,
                   closeCalls, wopen, pc, calls, total_waited, final_qsize, enqLog, snap,
                   notPipeVars>>

\* --------------------------------------------------------------- callers
\* a caller thread invokes start()
CallStart(c) ==
    /\ pc[c] = "idle"
    /\ calls < MaxCalls
    /\ calls' = calls + 1
    /\ pc' = [pc EXCEPT ![c] = "start_lock"]
    /\ UNCHANGED <<queue, started, listener, lock, atexit_registered, thr, cur, qh,
                   flushCalls, closeCalls, wopen, total_waited, final_qsize, enqLog, handled,
                   snap,
                   notPipeVars>>

\* Start without the "if not self._started" test
StartNoCheck(c) ==
    /\ pc[c] \in {"start_lock", "gqh_lock"}
    /\ lock = "free"
    /\ listener' = NewListener
    /\ thr' = [thr EXCEPT ![NewListener] = "running"]
    /\ started' = TRUE
    /\ atexit_registered' = TRUE
    /\ qh' = (qh \/ pc[c] = "gqh_lock")
    /\ pc' = [pc EXCEPT ![c] = "idle"]
    /\ UNCHANGED <<queue, lock, cur, flushCalls, closeCalls, wopen, calls, total_waited,
                   final_qsize, enqLog, handled, snap,
                   notPipeVars>>

\* start(): with self._lock: if not self._started: create and start the listener;
\* when get_queue_handler() made the call it then returns QueueHandler(self._queue)
Start(c) ==
    /\ pc[c] \in {"start_lock", "gqh_lock"}
    /\ lock = "free"
    /\ IF ~started
          THEN /\ listener' = NewListener
               /\ thr' = [thr EXCEPT ![NewListener] = "running"]
               /\ started' = TRUE
               /\ atexit_registered' = TRUE
          ELSE UNCHANGED <<listener, thr, started, atexit_registered>>
    /\ qh' = (qh \/ pc[c] = "gqh_lock")
    /\ pc' = [pc EXCEPT ![c] = "idle"]
    /\ UNCHANGED <<queue, lock, cur, flushCalls, closeCalls, wopen, calls, total_waited,
                   final_qsize, enqLog, handled, snap,
                   notPipeVars>>

\* get_queue_handler(): if not self._started: self.start(); return QueueHandler
GetQueueHandler(c) ==
    /\ pc[c] = "idle"
    /\ calls < MaxCalls
    /\ calls' = calls + 1
    /\ pc' = [pc EXCEPT ![c] = IF ~started THEN "gqh_lock" ELSE "idle"]
    /\ qh' = (qh \/ started)
    /\ UNCHANGED <<queue, started, listener, lock, atexit_registered, thr, cur,
                   flushCalls, closeCalls, wopen, total_waited, final_qsize, enqLog, handled,
                   snap,
                   notPipeVars>>

\* a caller thread invokes stop()
CallStop(c) ==
    /\ pc[c] = "idle"
    /\ calls < MaxCalls
    /\ calls' = calls + 1
    /\ pc' = [pc EXCEPT ![c] = "stop_lock"]
    /\ snap' = [snap EXCEPT ![c] = Len(enqLog)]
    /\ UNCHANGED <<queue, started, listener, lock, atexit_registered, thr, cur, qh,
                   flushCalls, closeCalls, wopen, total_waited, final_qsize, enqLog, handled,
                   notPipeVars>>

\* StopBegin without the "already stopped" early return
StopBeginNoCheck(c) ==
    /\ pc[c] = "stop_lock"
    /\ lock = "free"
    /\ lock' = c
    /\ queue' = Append(queue, None)
    /\ total_waited' = [total_waited EXCEPT ![c] = 0]
    /\ pc' = [pc EXCEPT ![c] = "stop_wait"]
    /\ UNCHANGED <<started, listener, atexit_registered, thr, cur, qh, flushCalls,
                   closeCalls, wopen, calls, final_qsize, enqLog, handled, snap,
                   notPipeVars>>

\* stop(): with self._lock: return if already stopped, else put the sentinel
StopBegin(c) ==
    /\ pc[c] = "stop_lock"
    /\ lock = "free"
    /\ IF ~started \/ listener = 0
          THEN /\ pc' = [pc EXCEPT ![c] = "stop_noop_ret"]
               /\ UNCHANGED <<queue, lock, total_waited>>
          ELSE /\ lock' = c
               /\ queue' = Append(queue, None)
               /\ total_waited' = [total_waited EXCEPT ![c] = 0]
               /\ pc' = [pc EXCEPT ![c] = "stop_wait"]
    /\ UNCHANGED <<started, listener, atexit_registered, thr, cur, qh, flushCalls,
                   closeCalls, wopen, calls, final_qsize, enqLog, handled, snap,
                   notPipeVars>>

\* stop(): one iteration of the drain loop (sleep, total_waited += wait_interval)
StopWait(c) ==
    /\ pc[c] = "stop_wait"
    /\ Len(queue) > 0 /\ total_waited[c] < MaxWait
    /\ total_waited' = [total_waited EXCEPT ![c] = @ + 1]
    /\ UNCHANGED <<queue, started, listener, lock, atexit_registered, thr, cur, qh,
                   flushCalls, closeCalls, wopen, pc, calls, final_qsize, enqLog, handled, snap,
                   notPipeVars>>

\* stop(): the drain loop ends; final_qsize; self._listener.stop() enqueues its
\* own sentinel (QueueListener.enqueue_sentinel)
StopWaitDone(c) ==
    /\ pc[c] = "stop_wait"
    /\ ~(Len(queue) > 0 /\ total_waited[c] < MaxWait)
    /\ final_qsize' = [final_qsize EXCEPT ![c] = Len(queue)]
    /\ queue' = Append(queue, None)
    /\ pc' = [pc EXCEPT ![c] = "stop_join"]
    /\ UNCHANGED <<started, listener, lock, atexit_registered, thr, cur, qh, flushCalls,
                   closeCalls, wopen, calls, total_waited, enqLog, handled, snap,
                   notPipeVars>>

\* StopJoin whose join gives up while the consumer thread is still alive
StopJoinTimeout(c) ==
    /\ pc[c] = "stop_join"
    /\ started' = FALSE
    /\ pc' = [pc EXCEPT ![c] = "stop_flush"]
    /\ UNCHANGED <<queue, listener, lock, atexit_registered, thr, cur, qh, flushCalls,
                   closeCalls, wopen, calls, total_waited, final_qsize, enqLog, handled,
                   snap, notPipeVars>>

\* stop(): self._listener.stop() joins the thread without a timeout and clears
\* listener._thread (so the join(timeout=5.0) that follows is skipped); then
\* self._started = False
StopJoin(c) ==
    /\ pc[c] = "stop_join"
    /\ ~Alive(listener)
    /\ started' = FALSE
    /\ pc' = [pc EXCEPT ![c] = "stop_flush"]
    /\ UNCHANGED <<queue, listener, lock, atexit_registered, thr, cur, qh, flushCalls,
                   closeCalls, wopen, calls, total_waited, final_qsize, enqLog, handled, snap,
                   notPipeVars>>

\* stop(): three flushes, close, the warning, release of the lock
StopFlush(c) ==
    /\ pc[c] = "stop_flush"
    /\ flushCalls' = flushCalls + 3
    /\ closeCalls' = closeCalls + 1
    /\ wopen' = FALSE
    /\ lock' = "free"
    /\ total_waited' = [total_waited EXCEPT ![c] = 0]
    /\ final_qsize' = [final_qsize EXCEPT ![c] = 0]
    /\ pc' = [pc EXCEPT ![c] = "stop_ret"]
    /\ UNCHANGED <<queue, started, listener, atexit_registered, thr, cur, qh, calls,
                   enqLog, handled, snap,
                   notPipeVars>>

\* stop() returns to its caller
StopReturn(c) ==
    /\ pc[c] \in {"stop_ret", "stop_noop_ret"}
    /\ pc' = [pc EXCEPT ![c] = "idle"]
    /\ snap' = [snap EXCEPT ![c] = 0]
    /\ UNCHANGED <<queue, started, listener, lock, atexit_registered, thr, cur, qh,
                   flushCalls, closeCalls, wopen, calls, total_waited, final_qsize, enqLog,
                   handled,
                   notPipeVars>>

Next ==
    \/ \E p \in Producers : Emit(p)
    \/ \E i \in ListenerIds : Dequeue(i)
    \/ \E i \in ListenerIds : Handle(i)
    \/ \E i \in ListenerIds : HandleRaise(i)
    \/ \E c \in Callers : CallStart(c)
    \/ \E c \in Callers : Start(c)
    \/ \E c \in Callers : GetQueueHandler(c)
    \/ \E c \in Callers : CallStop(c)
    \/ \E c \in Callers : StopBegin(c)
    \/ \E c \in Callers : StopWait(c)
    \/ \E c \in Callers : StopWaitDone(c)
    \/ \E c \in Callers : StopJoin(c)
    \/ \E c \in Callers : StopFlush(c)
    \/ \E c \in Callers : StopReturn(c)

Spec == Init /\ [][Next]_vars

\* threads are scheduled fairly; nothing makes a write that has begun complete
\* (Handle and HandleRaise carry no fairness), and no producer or caller is
\* obliged to make a further call
FairSpec ==
    /\ Spec
    /\ \A i \in ListenerIds : WF_vars(Dequeue(i))
    /\ \A c \in Callers : WF_vars(Start(c))
    /\ \A c \in Callers : WF_vars(StopBegin(c))
    /\ \A c \in Callers : WF_vars(StopWait(c))
    /\ \A c \in Callers : WF_vars(StopWaitDone(c))
    /\ \A c \in Callers : WF_vars(StopJoin(c))
    /\ \A c \in Callers : WF_vars(StopFlush(c))
    /\ \A c \in Callers : WF_vars(StopReturn(c))

\* ------------------------------------------- context.py: the context store
\* _thread_local as a module global shared by all threads
_thread_local_global(t) == "T1"

\* _thread_local = threading.local(): the slot of the thread that runs task t
_thread_local(t) == ThreadOf[t]

\* get_current_context() called in task t
get_current_context(t) ==
    IF cvar[t] # NoContext THEN cvar[t] ELSE tlocal[_thread_local(t)]

\* set_current_context(ctx) called in task t
set_current_context(t, ctx) ==
    /\ cvar' = [cvar EXCEPT ![t] = ctx]
    /\ tlocal' = [tlocal EXCEPT ![_thread_local(t)] = ctx]

\* from_headers taking its parent from the carrier's parent-span header
from_headers_parent_header(headers, k, ref) ==
    TraceContext(Get(headers, "X-Trace-ID", _generate_id(k)),
                 _generate_id(k + 1),
                 Get(headers, "X-Parent-Span-ID", None),
                 Get(headers, "X-Correlation-ID", None),
                 Get(headers, "X-Session-ID", None),
                 ref)

\* TraceContext.from_headers: k identifiers were generated before (the default
\* of headers.get is generated whether or not it is used), ref is the dict
\* object the default factory of extra made
from_headers(headers, k, ref) ==
    TraceContext(Get(headers, "X-Trace-ID", _generate_id(k)),
                 _generate_id(k + 1),
                 Get(headers, "X-Span-ID", None),
                 Get(headers, "X-Correlation-ID", None),
                 Get(headers, "X-Session-ID", None),
                 ref)

\* "if correlation_id: self.context.correlation_id = correlation_id" and the
\* same for session_id
WithOverrides(ctx, a) ==
    [ctx EXCEPT !.correlation_id = IF Truthy(a.correlation_id)
                                      THEN a.correlation_id ELSE @,
                !.session_id = IF Truthy(a.session_id)
                                  THEN a.session_id ELSE @]

\* trace.__init__ with "if parent:" tested before "if headers:"
trace_init_parent_first(a, k, ref) ==
    IF a.parent # NoContext
        THEN WithOverrides(child_span(a.parent, _generate_id(k), ref), a)
    ELSE IF a.headers # EmptyDict
        THEN WithOverrides(from_headers(a.headers, k, ref), a)
    ELSE IF Truthy(a.trace_id)
        THEN TraceContext(a.trace_id, _generate_id(k), None,
                          a.correlation_id, a.session_id, ref)
    ELSE TraceContext(_generate_id(k), _generate_id(k + 1), None,
                      a.correlation_id, a.session_id, ref)

\* trace.__init__: the context it builds; ref is the one dict object the call
\* makes (the default dict of from_headers, the copy of child_span, or **extra)
trace_init(a, k, ref) ==
    IF a.headers # EmptyDict
        THEN WithOverrides(from_headers(a.headers, k, ref), a)
    ELSE IF a.parent # NoContext
        THEN WithOverrides(child_span(a.parent, _generate_id(k), ref), a)
    ELSE IF Truthy(a.trace_id)
        THEN TraceContext(a.trace_id, _generate_id(k), None,
                          a.correlation_id, a.session_id, ref)
    ELSE TraceContext(_generate_id(k), _generate_id(k + 1), None,
                      a.correlation_id, a.session_id, ref)

\* trace.__init__: how many identifiers the call generates
trace_init_ids(a) ==
    IF a.headers # EmptyDict THEN 2
    ELSE IF a.parent # NoContext THEN 1
    ELSE IF Truthy(a.trace_id) THEN 1
    ELSE 2

\* trace.__init__: the dict objects after the call that built ctx, d being
\* those before: from_headers makes an empty dict and child_span a copy of the
\* parent's, and ctx.extra.update(extra) changes the dict ctx refers to; a
\* fresh root context keeps the dict **extra itself
trace_init_dicts(a, ctx, d) ==
    IF a.headers # EmptyDict
        THEN [Append(d, EmptyDict) EXCEPT ![ctx.extra] = Update(@, a.extra)]
    ELSE IF a.parent # NoContext
        THEN [Append(d, d[a.parent.extra]) EXCEPT ![ctx.extra] = Update(@, a.extra)]
    ELSE Append(d, a.extra)

\* the trace(...) calls a task makes: trace() and, inside a scope,
\* trace(parent=<the ambient context>)
ScopeArgs(t) ==
    {TraceArgs(None, None, None, EmptyDict, NoContext, EmptyDict)}
    \cup (IF get_current_context(t) # NoContext
             THEN {TraceArgs(None, None, None, EmptyDict, get_current_context(t),
                             EmptyDict)}
             ELSE {})

\* the scopes entered (each trace object makes one dict) and the records logged
TraceOps == Len(dicts) + Len(logq) + Len(written)

\* "with trace(...)": trace.__init__ builds the context, then __enter__ (or
\* __aenter__) saves get_current_context() and installs the context
Enter(t) ==
    /\ TraceOps < MaxTraceOps
    /\ \E a \in ScopeArgs(t) :
          LET ctx == trace_init(a, nextId, Len(dicts) + 1)
          IN  /\ scopes' = [scopes EXCEPT ![t] =
                              Append(@, [context |-> ctx,
                                         previous_context |-> get_current_context(t)])]
              /\ set_current_context(t, ctx)
              /\ nextId' = nextId + trace_init_ids(a)
              /\ dicts' = trace_init_dicts(a, ctx, dicts)
    /\ UNCHANGED <<logq, written, notTraceVars>>

\* __exit__ that clears the ambient context instead of restoring the saved one
ExitToNone(t) ==
    /\ scopes[t] # <<>>
    /\ set_current_context(t, NoContext)
    /\ scopes' = [scopes EXCEPT ![t] = SubSeq(@, 1, Len(@) - 1)]
    /\ UNCHANGED <<nextId, dicts, logq, written, notTraceVars>>

\* the with-block ends, normally or by an exception: __exit__ (or __aexit__)
\* of the innermost open trace object installs its previous_context
Exit(t) ==
    /\ scopes[t] # <<>>
    /\ set_current_context(t, scopes[t][Len(scopes[t])].previous_context)
    /\ scopes' = [scopes EXCEPT ![t] = SubSeq(@, 1, Len(@) - 1)]
    /\ UNCHANGED <<nextId, dicts, logq, written, notTraceVars>>

\* ------------------------------------------- core.py: TraceContextFilter
\* TraceContextFilter.filter: the attributes it sets on the record
filter(ctx, d) == IF ctx # NoContext THEN to_dict(ctx, d[ctx.extra]) ELSE EmptyDict

\* the trace attributes of a record taken from the producer's ambient context
\* when the record is formatted
TraceFieldsAtWrite(record) ==
    filter(get_current_context(record.producer), dicts)

\* JSONFormatter.format: the trace attributes it finds in record.__dict__
TraceFields(record) == record.attrs

\* a task logs through a logger set up by setup_logger: Logger.handle runs the
\* TraceContextFilter in the producer, then QueueHandler.emit enqueues the record
Log(t) ==
    /\ TraceOps < MaxTraceOps
    /\ logq' = Append(logq, [producer |-> t,
                             attrs |-> filter(get_current_context(t), dicts),
                             ambient |-> get_current_context(t)])
    /\ UNCHANGED <<cvar, tlocal, scopes, nextId, dicts, written, notTraceVars>>

\* the consumer thread takes the oldest record, formats and writes it
Write ==
    /\ logq # <<>>
    /\ written' = Append(written, [producer |-> Head(logq).producer,
                                   fields |-> TraceFields(Head(logq)),
                                   ambient |-> Head(logq).ambient])
    /\ logq' = Tail(logq)
    /\ UNCHANGED <<cvar, tlocal, scopes, nextId, dicts, notTraceVars>>

TraceInit == PipeInit /\ TraceIdle /\ CtxIdle /\ RotIdle /\ FacadeIdle

TraceNext ==
    \/ \E t \in Tasks : Enter(t)
    \/ \E t \in Tasks : Exit(t)
    \/ \E t \in Tasks : Log(t)
    \/ Write

TraceSpec == TraceInit /\ [][TraceNext]_vars

\* --------------------------------- context.py: the functions of a context
\* TraceContext.headers
headers(self) ==
    LET keys == {"X-Trace-ID", "X-Span-ID"}
                \cup (IF Truthy(self.parent_span_id) THEN {"X-Parent-Span-ID"} ELSE {})
                \cup (IF Truthy(self.correlation_id) THEN {"X-Correlation-ID"} ELSE {})
                \cup (IF Truthy(self.session_id) THEN {"X-Session-ID"} ELSE {})
    IN  [k \in keys |->
            CASE k = "X-Trace-ID" -> self.trace_id
              [] k = "X-Span-ID" -> self.span_id
              [] k = "X-Parent-Span-ID" -> self.parent_span_id
              [] k = "X-Correlation-ID" -> self.correlation_id
              [] k = "X-Session-ID" -> self.session_id]

\* the strings a caller may hold: "" and MaxInputId non-empty ones
InputStrs == {Str(n) : n \in 0 .. MaxInputId}
NonEmptyStrs == InputStrs \ {Str(0)}

\* the content of a context's extra map
InputExtras == {EmptyDict, [user_id |-> Str(1)]}

\* the contexts a caller may hold; the extra map is dict object 1
InputContexts ==
    {TraceContext(t, s, ps, c, se, 1) :
        t \in InputStrs, s \in InputStrs,
        ps \in {None} \cup InputStrs, c \in {None} \cup InputStrs,
        se \in {None} \cup InputStrs}

\* contexts without optional fields
RootContexts ==
    {TraceContext(t, s, None, None, None, 1) : t \in NonEmptyStrs, s \in NonEmptyStrs}

\* the header names an inbound carrier may hold: the names from_headers reads,
\* the trace and session names in other capitalizations, and a foreign name
CarrierKeys ==
    {"X-Trace-ID", "x-trace-id", "X-Span-ID", "X-Correlation-ID", "X-Session-Id",
     "X-Request-ID"}

\* all dicts with keys among K and non-empty strings as values
DictsOver(K) == UNION {[S -> NonEmptyStrs] : S \in SUBSET K}

\* the inputs: a context alone; a header carrier alone; the arguments of a
\* trace(...) call, with or without a parent, a carrier, a trace_id, a
\* correlation_id and extra fields
InputArgs ==
    {TraceArgs(None, None, None, EmptyDict, q, EmptyDict) : q \in InputContexts}
    \cup {TraceArgs(None, None, None, h, NoContext, EmptyDict) :
            h \in DictsOver(CarrierKeys)}
    \cup {TraceArgs(t, c, None, h, q, e) :
            t \in {None, Str(0), Str(MaxInputId)}, c \in {None, Str(MaxInputId)},
            h \in DictsOver({"X-Trace-ID", "X-Span-ID"}),
            q \in {NoContext} \cup RootContexts,
            e \in {EmptyDict, [tenant_id |-> Str(1)]}}

\* a caller holds the inputs; no function has been called yet
CtxInit ==
    /\ PipeInit
    /\ cvar = [t \in Tasks |-> NoContext]
    /\ tlocal = [h \in Threads |-> NoContext]
    /\ scopes = [t \in Tasks |-> <<>>]
    /\ logq = <<>>
    /\ written = <<>>
    /\ nextId = 0
    /\ args \in InputArgs
    /\ dicts \in IF args.parent = NoContext THEN {<<>>} ELSE {<<e>> : e \in InputExtras}
    /\ op = "input"
    /\ outCtx = NoContext
    /\ outHeaders = EmptyDict
    /\ RotIdle /\ FacadeIdle

\* c = p.child_span() of the context p held
CallChildSpan ==
    /\ op = "input" /\ args.parent # NoContext
    /\ outCtx' = child_span(args.parent, _generate_id(nextId), Len(dicts) + 1)
    /\ dicts' = Append(dicts, dicts[args.parent.extra])
    /\ nextId' = nextId + 1
    /\ op' = "child_span"
    /\ UNCHANGED <<args, outHeaders, notCtxVars>>

\* p.headers() of the context p held
CallHeaders ==
    /\ op = "input" /\ args.parent # NoContext
    /\ outHeaders' = headers(args.parent)
    /\ op' = "headers"
    /\ UNCHANGED <<args, outCtx, nextId, dicts, notCtxVars>>

\* TraceContext.from_headers(h) of the carrier h held
CallFromHeaders ==
    /\ op = "input"
    /\ outCtx' = from_headers(args.headers, nextId, Len(dicts) + 1)
    /\ dicts' = Append(dicts, EmptyDict)
    /\ nextId' = nextId + 2
    /\ op' = "from_headers"
    /\ UNCHANGED <<args, outHeaders, notCtxVars>>

\* TraceContext.from_headers(p.headers()) of the context p held
CallRoundTrip ==
    /\ op = "input" /\ args.parent # NoContext
    /\ outHeaders' = headers(args.parent)
    /\ outCtx' = from_headers(headers(args.parent), nextId, Len(dicts) + 1)
    /\ dicts' = Append(dicts, EmptyDict)
    /\ nextId' = nextId + 2
    /\ op' = "round_trip"
    /\ UNCHANGED <<args, notCtxVars>>

\* trace(trace_id, correlation_id, session_id, headers, parent, **extra)
CallTrace ==
    /\ op = "input"
    /\ LET ctx == trace_init(args, nextId, Len(dicts) + 1)
       IN  /\ outCtx' = ctx
           /\ dicts' = trace_init_dicts(args, ctx, dicts)
    /\ nextId' = nextId + trace_init_ids(args)
    /\ op' = "trace"
    /\ UNCHANGED <<args, outHeaders, notCtxVars>>

CtxNext ==
    \/ CallChildSpan
    \/ CallHeaders
    \/ CallFromHeaders
    \/ CallRoundTrip
    \/ CallTrace

CtxSpec == CtxInit /\ [][CtxNext]_vars

\* ------------------------------------ handlers.py: _RotatingFileHandler
\* Path.unlink of an existing file
Unlink(d, name) == [n \in DOMAIN d \ {name} |-> d[n]]

\* Path.rename on POSIX: dst is replaced if it exists
Rename(d, src, dst) ==
    [n \in (DOMAIN d \ {src}) \cup {dst} |-> IF n = dst THEN d[src] ELSE d[n]]

\* writing a whole file (gzip.open(name, "wb") and copyfileobj): the file is
\* created or truncated; an archive's content is kept as the lines it holds
WriteFile(d, name, lines) ==
    [n \in DOMAIN d \cup {name} |-> IF n = name THEN lines ELSE d[n]]

\* _open: open(self.filename, "a") creates the file when it does not exist
Open(d) == IF Active \in DOMAIN d THEN d ELSE WriteFile(d, Active, <<>>)

\* the serialized lengths a record can have: len(msg + "\n") in bytes
RecordLengths == {1, 2}

\* self.filename.stat().st_size of a file that holds the given lines
RECURSIVE Size(_)
Size(lines) ==
    IF lines = <<>> THEN 0 ELSE reclen[Head(lines)] + Size(Tail(lines))

\* _should_rotate without the "max_bytes <= 0" early return
_should_rotate_unguarded ==
    IF Active \notin DOMAIN disk THEN FALSE
    ELSE Size(disk[Active]) >= max_bytes

\* _should_rotate: the size of the active file as it is, without the record
\* that is about to be written
_should_rotate ==
    IF max_bytes <= 0 THEN FALSE
    ELSE IF Active \notin DOMAIN disk THEN FALSE
    ELSE Size(disk[Active]) >= max_bytes

\* _rotate: "for i in range(self.backup_count - 1, 0, -1)" from index i down
RECURSIVE ShiftBackups(_, _)
ShiftBackups(d, i) ==
    IF i < 1 THEN d
    ELSE LET src == _get_backup_name(i)
             dst == _get_backup_name(i + 1)
         IN  ShiftBackups(IF src \in DOMAIN d
                             THEN Rename(IF dst \in DOMAIN d THEN Unlink(d, dst) ELSE d,
                                         src, dst)
                             ELSE d,
                          i - 1)

\* _rotate: the active file becomes the first backup
Promote(d) ==
    IF Active \notin DOMAIN d THEN d
    ELSE IF compress THEN Unlink(WriteFile(d, GzName(1), d[Active]), Active)
    ELSE Rename(d, Active, _get_backup_name(1))

\* _rotate: the oldest backup and its .gz form are deleted if they exist
DeleteOldest(d) ==
    LET oldest == _get_backup_name(backup_count)
        d1 == IF oldest \in DOMAIN d THEN Unlink(d, oldest) ELSE d
    IN  IF GzName(backup_count) \in DOMAIN d1 THEN Unlink(d1, GzName(backup_count)) ELSE d1

\* _rotate: the directory after a rotation of directory d
_rotate(d) == Open(DeleteOldest(Promote(ShiftBackups(d, backup_count - 1))))

\* the configurations and the directory of a newly constructed file sink
RotInit ==
    /\ PipeInit /\ TraceIdle /\ CtxIdle /\ FacadeIdle
    /\ disk = [n \in {Active} |-> <<>>]
    /\ backup_count \in 0 .. MaxBackup
    /\ compress \in BOOLEAN
    /\ max_bytes \in -1 .. MaxBytes
    /\ nlines = 0
    /\ rotations = 0
    /\ stream = TRUE
    /\ failures = 0
    /\ reclen = <<>>

\* the directories _rotate can leave behind when one of its file operations
\* raises OSError (disk full, permissions): the first rename of the shift
\* loop, the rename or gzip of the active file, the unlink of the oldest
\* backup, or the final _open
RotateFailures(d) ==
    LET shifted == ShiftBackups(d, backup_count - 1)
        promoted == Promote(shifted)
    IN  (IF \E i \in 1 .. backup_count - 1 : _get_backup_name(i) \in DOMAIN d
            THEN {d} ELSE {})
        \cup {shifted}
        \cup (IF {_get_backup_name(backup_count), GzName(backup_count)}
                    \cap DOMAIN promoted # {}
                 THEN {promoted} ELSE {})
        \cup {DeleteOldest(promoted)}

\* _RotatingFileHandler.emit of the next record when no file operation
\* raises: rotate if due (which reopens the stream), then, "if self._stream",
\* write the line to the active file and flush
FileEmit ==
    /\ nlines < MaxLines
    /\ LET d == IF _should_rotate THEN _rotate(disk) ELSE disk
       IN  /\ disk' = IF _should_rotate \/ stream
                         THEN [d EXCEPT ![Active] = Append(@, nlines + 1)]
                         ELSE d
           /\ stream' = (_should_rotate \/ stream)
    /\ rotations' = IF _should_rotate THEN rotations + 1 ELSE rotations
    /\ nlines' = nlines + 1
    /\ \E n \in RecordLengths : reclen' = Append(reclen, n)
    /\ UNCHANGED <<backup_count, compress, max_bytes, failures, notRotVars>>

\* _RotatingFileHandler.emit of the next record when _rotate raises: _close
\* has set _stream to None, the exception skips the write and emit's
\* "except Exception" hands the record to handleError
FileEmitRotateFails ==
    /\ nlines < MaxLines
    /\ failures < MaxFail
    /\ _should_rotate
    /\ disk' \in RotateFailures(disk)
    /\ stream' = FALSE
    /\ failures' = failures + 1
    /\ nlines' = nlines + 1
    /\ \E n \in RecordLengths : reclen' = Append(reclen, n)
    /\ UNCHANGED <<backup_count, compress, max_bytes, rotations, notRotVars>>

RotNext ==
    \/ FileEmit
    \/ FileEmitRotateFails

RotSpec == RotInit /\ [][RotNext]_vars

\* ------------------------------------------- filters.py: RateLimitFilter
\* the values key_func(record) takes
Keys == {"k1", "k2"}

\* one entry of the history of filter calls: which filter, the record's key,
\* the clock reading, the record's level, the variate drawn, and how the call
\* ended ("keep" for True, "drop" for False, "raise" for an exception that
\* left filter())
FilterCall(f, key, time, level, variate, result) ==
    [filter |-> f, key |-> key, time |-> time, level |-> level,
     variate |-> variate, result |-> result]

\* self._state[key] of a defaultdict: a missing key reads as an empty deque
StateOf(key) == IF key \in DOMAIN _state THEN _state[key] ELSE <<>>

\* the loop that drops timestamps as old as the interval or older
RECURSIVE PopExpiredInclusive(_, _)
PopExpiredInclusive(timestamps, t) ==
    IF timestamps # <<>> /\ t - Head(timestamps) >= interval_seconds
    THEN PopExpiredInclusive(Tail(timestamps), t)
    ELSE timestamps

\* while timestamps and now - timestamps[0] > self.interval_seconds:
\*     timestamps.popleft()
RECURSIVE PopExpired(_, _)
PopExpired(timestamps, t) ==
    IF timestamps # <<>> /\ t - Head(timestamps) > interval_seconds
    THEN PopExpired(Tail(timestamps), t)
    ELSE timestamps

\* append to a deque(maxlen=max_per_interval): a full deque discards its head
DequeAppend(timestamps, t) ==
    IF Len(timestamps) >= max_per_interval
    THEN Append(Tail(timestamps), t)
    ELSE Append(timestamps, t)

\* the cap of the per-key table, smaller than the number of keys (stands for
\* the 4096 keys of the design document; the filter itself has no cap)
TableCap == Cardinality(Keys) - 1

\* a rate-limit filter as constructed (max_per_interval >= 1 and
\* interval_seconds > 0, or __init__ raises ValueError)
RateInit ==
    /\ StampIdle
    /\ RaceIdle
    /\ LifeIdle
    /\ PipeInit /\ TraceIdle /\ CtxIdle /\ RotIdle /\ ConIdle /\ SetupIdle /\ SigIdle /\ SmtpIdle
    /\ now = 0
    /\ max_per_interval \in 1 .. MaxPerInterval
    /\ interval_seconds \in 1 .. MaxInterval
    /\ _state = <<>>
    /\ sample_rate = 10
    /\ level_overrides = <<>>
    /\ flog = <<>>

\* time passes between two records
Tick ==
    /\ now < MaxTime
    /\ now' = now + 1
    /\ UNCHANGED <<max_per_interval, interval_seconds, _state, sample_rate,
                   level_overrides, flog, notFltVars>>

\* RateLimitFilter.filter(record) for a record whose key_func value is key
RateLimitFilter_filter(key) ==
    /\ Len(flog) < MaxFilterCalls
    /\ LET timestamps == PopExpired(StateOf(key), now)
           limited == Len(timestamps) >= max_per_interval
           kept == IF limited THEN timestamps ELSE DequeAppend(timestamps, now)
       IN  /\ _state' = [k \in DOMAIN _state \cup {key} |->
                            IF k = key THEN kept ELSE _state[k]]
           /\ flog' = Append(flog, FilterCall("rate", key, now, 0, 0,
                                              IF limited THEN "drop" ELSE "keep"))
    /\ UNCHANGED <<now, max_per_interval, interval_seconds, sample_rate,
                   level_overrides, notFltVars>>

\* RateLimitFilter.filter(record) when key_func(record) raises: filter() has
\* no try block, nor have Filterer.filter and Logger.handle that called it,
\* so the exception leaves the logging call of the producer
RateLimitFilter_filter_raises ==
    /\ Len(flog) < MaxFilterCalls
    /\ flog' = Append(flog, FilterCall("rate", "", now, 0, 0, "raise"))
    /\ UNCHANGED <<now, max_per_interval, interval_seconds, _state, sample_rate,
                   level_overrides, notFltVars>>

RateNext ==
    \/ Tick
    \/ \E key \in Keys : RateLimitFilter_filter(key)
    \/ RateLimitFilter_filter_raises

RateSpec == RateInit /\ [][RateNext]_vars

\* ------------------- filters.py: RateLimitFilter called by several threads
\* filter() takes no lock: the threads' calls interleave between any two
\* operations on the shared deque (each deque operation itself is atomic)
FilterCallsBegun ==
    Len(flog) + Cardinality({t \in RaceThreads : fpc[t] # "idle"})

\* self._state with the deque of one key replaced
WithDeque(key, timestamps) ==
    [k \in DOMAIN _state \cup {key} |-> IF k = key THEN timestamps ELSE _state[k]]

\* key = self.key_func(record); now = time.time(); timestamps = self._state[key]
FilterBegin(t, key) ==
    /\ fpc[t] = "idle"
    /\ FilterCallsBegun < MaxRaceCalls
    /\ fkey' = [fkey EXCEPT ![t] = key]
    /\ fnow' = [fnow EXCEPT ![t] = now]
    /\ _state' = WithDeque(key, StateOf(key))
    /\ fpc' = [fpc EXCEPT ![t] = "while"]
    /\ UNCHANGED <<now, max_per_interval, interval_seconds, sample_rate,
                   level_overrides, flog, notRaceVars>>

\* while timestamps and now - timestamps[0] > self.interval_seconds:
FilterWhile(t) ==
    /\ fpc[t] = "while"
    /\ LET timestamps == StateOf(fkey[t])
       IN  fpc' = [fpc EXCEPT ![t] =
                      IF timestamps # <<>> /\ fnow[t] - Head(timestamps) > interval_seconds
                      THEN "popleft" ELSE "if"]
    /\ UNCHANGED <<fkey, fnow, fltVars, notRaceVars>>

\* timestamps.popleft(): IndexError when another thread has emptied the deque
FilterPopleft(t) ==
    /\ fpc[t] = "popleft"
    /\ LET timestamps == StateOf(fkey[t])
       IN  IF timestamps = <<>>
           THEN /\ flog' = Append(flog, FilterCall("rate", fkey[t], fnow[t], 0, 0, "raise"))
                /\ fpc' = [fpc EXCEPT ![t] = "idle"]
                /\ UNCHANGED _state
           ELSE /\ _state' = WithDeque(fkey[t], Tail(timestamps))
                /\ fpc' = [fpc EXCEPT ![t] = "while"]
                /\ UNCHANGED flog
    /\ UNCHANGED <<fkey, fnow, now, max_per_interval, interval_seconds, sample_rate,
                   level_overrides, notRaceVars>>

\* if len(timestamps) >= self.max_per_interval: return False
FilterIf(t) ==
    /\ fpc[t] = "if"
    /\ IF Len(StateOf(fkey[t])) >= max_per_interval
          THEN /\ flog' = Append(flog, FilterCall("rate", fkey[t], fnow[t], 0, 0, "drop"))
               /\ fpc' = [fpc EXCEPT ![t] = "idle"]
          ELSE /\ fpc' = [fpc EXCEPT ![t] = "append"]
               /\ UNCHANGED flog
    /\ UNCHANGED <<fkey, fnow, now, max_per_interval, interval_seconds, _state,
                   sample_rate, level_overrides, notRaceVars>>

\* timestamps.append(now); return True
FilterAppend(t) ==
    /\ fpc[t] = "append"
    /\ _state' = WithDeque(fkey[t], DequeAppend(StateOf(fkey[t]), fnow[t]))
    /\ flog' = Append(flog, FilterCall("rate", fkey[t], fnow[t], 0, 0, "keep"))
    /\ fpc' = [fpc EXCEPT ![t] = "idle"]
    /\ UNCHANGED <<fkey, fnow, now, max_per_interval, interval_seconds, sample_rate,
                   level_overrides, notRaceVars>>

\* a rate-limit filter as constructed, no call under way
RaceInit ==
    /\ StampIdle
    /\ PipeInit /\ TraceIdle /\ CtxIdle /\ RotIdle /\ ConIdle /\ SetupIdle /\ SigIdle
    /\ SmtpIdle /\ LifeIdle
    /\ RaceIdle
    /\ now = 0
    /\ max_per_interval \in 1 .. MaxPerInterval
    /\ interval_seconds \in 1 .. MaxInterval
    /\ _state = <<>>
    /\ sample_rate = 10
    /\ level_overrides = <<>>
    /\ flog = <<>>

RaceNext ==
    \/ Tick
    \/ \E t \in RaceThreads : \E key \in Keys : FilterBegin(t, key)
    \/ \E t \in RaceThreads : FilterWhile(t)
    \/ \E t \in RaceThreads : FilterPopleft(t)
    \/ \E t \in RaceThreads : FilterIf(t)
    \/ \E t \in RaceThreads : FilterAppend(t)

RaceSpec == RaceInit /\ [][RaceNext]_vars

\* -------------------------------------------- filters.py: SamplingFilter
\* logging.DEBUG, logging.INFO, logging.ERROR
Levels == {10, 20, 40}

\* the levels a level_overrides mapping has entries for
OverrideLevels == {10, 40}

\* the rates 0.0, 0.5 and 1.0, in tenths
Rates == {0, 5, 10}

\* values of random.random(), which lies in [0.0, 1.0), in tenths
Variates == {0, 5, 9}

\* the rate of a level when an override of 0.0 is taken for a missing one
RateOfLevelTruthy(levelno) ==
    IF levelno \in DOMAIN level_overrides /\ level_overrides[levelno] # 0
    THEN level_overrides[levelno]
    ELSE sample_rate

\* rate = self.level_overrides.get(record.levelno, self.sample_rate)
RateOfLevel(levelno) == Get(level_overrides, levelno, sample_rate)

\* a sampling filter as constructed: every rate within 0.0 .. 1.0 (or __init__
\* raises ValueError), level_overrides None or a dict
SampleInit ==
    /\ StampIdle
    /\ RaceIdle
    /\ LifeIdle
    /\ PipeInit /\ TraceIdle /\ CtxIdle /\ RotIdle /\ ConIdle /\ SetupIdle /\ SigIdle /\ SmtpIdle
    /\ now = 0
    /\ max_per_interval = 1
    /\ interval_seconds = 1
    /\ _state = <<>>
    /\ sample_rate \in Rates
    /\ level_overrides \in UNION {[S -> Rates] : S \in SUBSET OverrideLevels}
    /\ flog = <<>>

\* SamplingFilter.filter(record): return random.random() < rate
SamplingFilter_filter ==
    /\ Len(flog) < MaxSampleCalls
    /\ \E levelno \in Levels, variate \in Variates :
          flog' = Append(flog, FilterCall("sample", "", 0, levelno, variate,
                            IF variate < RateOfLevel(levelno) THEN "keep" ELSE "drop"))
    /\ UNCHANGED <<now, max_per_interval, interval_seconds, _state, sample_rate,
                   level_overrides, notFltVars>>

SampleNext == SamplingFilter_filter

SampleSpec == SampleInit /\ [][SampleNext]_vars

\* ------------------------------------- handlers.py: AsyncConsoleHandler
\* logging.DEBUG, INFO, WARNING, ERROR, CRITICAL
SeverityLevels == {10, 20, 30, 40, 50}

\* logging.ERROR
ERROR == 40

\* a split that sends only what is above ERROR to stderr
SplitStreamAboveError(levelno) == IF levelno > ERROR THEN "stderr" ELSE "stdout"

\* _SplitStreamHandler.emit:
\*     stream = self.stderr if record.levelno >= logging.ERROR else self.stdout
SplitStream(levelno) == IF levelno >= ERROR THEN "stderr" ELSE "stdout"

\* the stream the writer of the console sink writes a record to: the choice
\* of _SplitStreamHandler with split_errors, and without it the one stream of
\* logging.StreamHandler(stream or sys.stdout)
StreamOf(levelno) == IF split_errors THEN SplitStream(levelno) ELSE "stdout"

\* a console sink as constructed; "stdout" is stream or sys.stdout and
\* "stderr" is error_stream or sys.stderr
ConsoleInit ==
    /\ StampIdle
    /\ RaceIdle
    /\ LifeIdle
    /\ PipeInit /\ TraceIdle /\ CtxIdle /\ RotIdle /\ FltIdle /\ SetupIdle /\ SigIdle /\ SmtpIdle
    /\ split_errors \in BOOLEAN
    /\ console_level \in {10, 40, 50}
    /\ streams = [stdout |-> <<>>, stderr |-> <<>>]
    /\ clog = <<>>

\* the consumer handles one dequeued record: QueueListener.handle with
\* respect_handler_level=True passes it to the writer only if its level is at
\* least the writer's, and the writer's emit writes the line and flushes
ConsoleHandle(levelno) ==
    /\ Len(clog) < MaxConsole
    /\ clog' = Append(clog, levelno)
    /\ streams' = IF levelno >= console_level
                     THEN [streams EXCEPT ![StreamOf(levelno)] = Append(@, Len(clog) + 1)]
                     ELSE streams
    /\ UNCHANGED <<split_errors, console_level, notConVars>>

ConsoleNext == \E levelno \in SeverityLevels : ConsoleHandle(levelno)

ConsoleSpec == ConsoleInit /\ [][ConsoleNext]_vars

\* ------------------------------------ core.py: convenience constructors
\* the sinks a constructor has built before it calls setup_logger: kinds is
\* the sequence of their kinds, their identities continue those of sinks
NewIds(kinds) == [i \in 1 .. Len(kinds) |-> Len(sinks) + i]

\* the value a constructor returns: setup_logger's "return logger", a Logger.
\* Its handlers are QueueHandler objects, which refer to the queue only, so no
\* sink (the object with stop()) is part of it or can be reached from it
Returned(fn, name) == [fn |-> fn, logger |-> name, handles |-> {}]

\* setup_logger(name, handlers=[a queue handler of each sink in kinds]):
\* logger.handlers.clear(); "if not handlers" a default AsyncConsoleHandler is
\* created and started; every handler is added. The value is the sinks, the
\* loggers' handlers and the sinks created once the constructor has returned
setup_logger(name, kinds) ==
    LET all == IF kinds = <<>> THEN <<"console">> ELSE kinds
    IN  [sinks |-> sinks \o all,
         attached |-> [attached EXCEPT ![name] = NewIds(all)],
         created |-> Range(NewIds(all))]

\* setup_console_logger(name): one AsyncConsoleHandler
setup_console_logger(name) ==
    LET after == setup_logger(name, <<"console">>)
    IN  /\ Len(after.sinks) <= MaxSinks
        /\ sinks' = after.sinks
        /\ attached' = after.attached
        /\ created' = after.created
        /\ ret' = Returned("setup_console_logger", name)
        /\ call' = [fn |-> "setup_console_logger", name |-> name,
                    console |-> TRUE, file_path |-> FALSE]
        /\ UNCHANGED notSetupVars

\* setup_file_logger(name, filename): one AsyncRotatingFileHandler
setup_file_logger(name) ==
    LET after == setup_logger(name, <<"file">>)
    IN  /\ Len(after.sinks) <= MaxSinks
        /\ sinks' = after.sinks
        /\ attached' = after.attached
        /\ created' = after.created
        /\ ret' = Returned("setup_file_logger", name)
        /\ call' = [fn |-> "setup_file_logger", name |-> name,
                    console |-> FALSE, file_path |-> TRUE]
        /\ UNCHANGED notSetupVars

\* setup_production_logger(name, console, file_path): a console sink "if
\* console", a file sink "if file_path"
setup_production_logger(name) ==
    \E console \in BOOLEAN, file_path \in BOOLEAN :
        LET after == setup_logger(name,
                        (IF console THEN <<"console">> ELSE <<>>)
                            \o (IF file_path THEN <<"file">> ELSE <<>>))
        IN  /\ Len(after.sinks) <= MaxSinks
            /\ sinks' = after.sinks
            /\ attached' = after.attached
            /\ created' = after.created
            /\ ret' = Returned("setup_production_logger", name)
            /\ call' = [fn |-> "setup_production_logger", name |-> name,
                        console |-> console, file_path |-> file_path]
            /\ UNCHANGED notSetupVars

SetupInit ==
    /\ StampIdle
    /\ RaceIdle
    /\ LifeIdle
    /\ PipeInit /\ TraceIdle /\ CtxIdle /\ RotIdle /\ FltIdle /\ ConIdle
    /\ SetupIdle /\ SigIdle /\ SmtpIdle

SetupNext ==
    \/ \E name \in LoggerNames : setup_console_logger(name)
    \/ \E name \in LoggerNames : setup_file_logger(name)
    \/ \E name \in LoggerNames : setup_production_logger(name)

SetupSpec == SetupInit /\ [][SetupNext]_vars

\* --------------------- handlers.py: emit from a signal handler (queue.Queue)
\* The sink's queue is a queue.Queue, whose put and get run "with
\* self.not_full" / "with self.not_empty": both conditions share the one
\* threading.Lock self.mutex, which is not reentrant. A Python signal handler
\* runs in the main thread between two bytecodes of whatever that thread was
\* executing, and the interrupted frame resumes only when the handler returns.
SigInit ==
    /\ StampIdle
    /\ RaceIdle
    /\ LifeIdle
    /\ PipeInit /\ TraceIdle /\ CtxIdle /\ RotIdle /\ FltIdle /\ ConIdle /\ SetupIdle
    /\ SmtpIdle
    /\ SigIdle

\* the main thread calls logger.info(): QueueHandler.emit, enqueue,
\* queue.put_nowait
MainEmitBegin ==
    /\ mpc = "idle" /\ hpc = "none"
    /\ nemit < MaxSigEmit
    /\ mpc' = "acquire"
    /\ nemit' = nemit + 1
    /\ UNCHANGED <<mutex, hpc, lpc, squeue, nsignal, notSigVars>>

\* put: "with self.not_full" acquires the mutex
MainAcquire ==
    /\ mpc = "acquire" /\ hpc = "none"
    /\ mutex = "free"
    /\ mutex' = "main"
    /\ mpc' = "locked"
    /\ UNCHANGED <<hpc, lpc, squeue, nemit, nsignal, notSigVars>>

\* put: self._put(item); self.unfinished_tasks += 1; self.not_empty.notify()
MainPut ==
    /\ mpc = "locked" /\ hpc = "none"
    /\ squeue' = Append(squeue, <<"main", nemit>>)
    /\ mpc' = "release"
    /\ UNCHANGED <<mutex, hpc, lpc, nemit, nsignal, notSigVars>>

\* put: the with block ends and releases the mutex; emit returns
MainRelease ==
    /\ mpc = "release" /\ hpc = "none"
    /\ mutex' = "free"
    /\ mpc' = "idle"
    /\ UNCHANGED <<hpc, lpc, squeue, nemit, nsignal, notSigVars>>

\* a signal is delivered: its handler starts in the main thread, wherever the
\* thread is, and calls logger.info(), which reaches queue.put_nowait
Signal ==
    /\ hpc = "none"
    /\ nsignal < MaxSignals
    /\ hpc' = "acquire"
    /\ nsignal' = nsignal + 1
    /\ UNCHANGED <<mutex, mpc, lpc, squeue, nemit, notSigVars>>

\* the handler's put acquires the mutex, which it can only when no one holds
\* it, the interrupted frame of its own thread included
HandlerAcquire ==
    /\ hpc = "acquire"
    /\ mutex = "free"
    /\ mutex' = "handler"
    /\ hpc' = "locked"
    /\ UNCHANGED <<mpc, lpc, squeue, nemit, nsignal, notSigVars>>

\* the handler's put appends, releases the mutex, and the handler returns
HandlerPut ==
    /\ hpc = "locked"
    /\ squeue' = Append(squeue, <<"handler", nsignal>>)
    /\ mutex' = "free"
    /\ hpc' = "none"
    /\ UNCHANGED <<mpc, lpc, nemit, nsignal, notSigVars>>

\* the consumer thread's queue.get finds a record and holds the mutex
ListenerAcquire ==
    /\ lpc = "idle"
    /\ squeue # <<>>
    /\ mutex = "free"
    /\ mutex' = "listener"
    /\ lpc' = "locked"
    /\ UNCHANGED <<mpc, hpc, squeue, nemit, nsignal, notSigVars>>

\* get: item = self._get(); the with block ends and releases the mutex
ListenerGet ==
    /\ lpc = "locked"
    /\ squeue' = Tail(squeue)
    /\ mutex' = "free"
    /\ lpc' = "idle"
    /\ UNCHANGED <<mpc, hpc, nemit, nsignal, notSigVars>>

SigNext ==
    \/ MainEmitBegin
    \/ MainAcquire
    \/ MainPut
    \/ MainRelease
    \/ Signal
    \/ HandlerAcquire
    \/ HandlerPut
    \/ ListenerAcquire
    \/ ListenerGet

SigSpec == SigInit /\ [][SigNext]_vars

\* --------------------------------------- handlers.py: _SMTPHandler rate limit
\* the error signatures f"{name}:{levelname}:{message[:50]}" of the records
Signatures == {"e1", "e2", "e3"}

\* self._max_cache_size, smaller than the number of signatures (stands for
\* the 1000 of the code)
_max_cache_size == Cardinality(Signatures) - 1

\* the positions of key in the OrderedDict (none or one)
IndexOf(od, key) == {i \in 1 .. Len(od) : od[i][1] = key}

\* self._last_sent.get(key, 0)
LastSent(od, key) ==
    IF IndexOf(od, key) = {} THEN 0 ELSE od[CHOOSE i \in IndexOf(od, key) : TRUE][2]

\* self._last_sent[key] = now: a present key keeps its position in the order,
\* a new key goes to the end
SetItem(od, key, t) ==
    IF IndexOf(od, key) = {} THEN Append(od, <<key, t>>)
    ELSE [i \in 1 .. Len(od) |-> IF od[i][1] = key THEN <<key, t>> ELSE od[i]]

\* if len(self._last_sent) > self._max_cache_size:
\*     self._last_sent.popitem(last=False)
Cleanup(od) == IF Len(od) > _max_cache_size THEN Tail(od) ELSE od

SmtpInit ==
    /\ StampIdle
    /\ RaceIdle
    /\ LifeIdle
    /\ PipeInit /\ TraceIdle /\ CtxIdle /\ RotIdle /\ FltIdle /\ ConIdle /\ SetupIdle
    /\ SigIdle
    /\ rate_limit \in 0 .. MaxRateLimit
    /\ _last_sent = <<>>
    /\ wall = Epoch
    /\ spc = [t \in SmtpThreads |-> "idle"]
    /\ skey = [t \in SmtpThreads |-> ""]
    /\ tnow = [t \in SmtpThreads |-> 0]
    /\ approved = <<>>

\* time passes
SmtpTick ==
    /\ wall < Epoch + MaxSmtpTime
    /\ wall' = wall + 1
    /\ UNCHANGED <<rate_limit, _last_sent, spc, skey, tnow, approved, notSmtpVars>>

\* how many calls of _should_send have been begun
SmtpCalls ==
    Len(approved) + Cardinality({t \in SmtpThreads : spc[t] # "idle"})

\* _should_send(record) up to the lock: "if self.rate_limit <= 0: return
\* True", else the key is built and now = datetime.now().timestamp() is read
ShouldSendBegin(t, key) ==
    /\ spc[t] = "idle"
    /\ SmtpCalls < MaxSmtpCalls
    /\ IF rate_limit <= 0
          THEN /\ approved' = Append(approved, <<key, wall>>)
               /\ UNCHANGED <<spc, skey, tnow>>
          ELSE /\ spc' = [spc EXCEPT ![t] = "lock"]
               /\ skey' = [skey EXCEPT ![t] = key]
               /\ tnow' = [tnow EXCEPT ![t] = wall]
               /\ UNCHANGED approved
    /\ UNCHANGED <<rate_limit, _last_sent, wall, notSmtpVars>>

\* _should_send: the block under "with self._lock", and the return
ShouldSendLocked(t) ==
    /\ spc[t] = "lock"
    /\ IF tnow[t] - LastSent(_last_sent, skey[t]) < rate_limit
          THEN UNCHANGED <<_last_sent, approved>>
          ELSE /\ _last_sent' = Cleanup(SetItem(_last_sent, skey[t], tnow[t]))
               /\ approved' = Append(approved, <<skey[t], wall>>)
    /\ spc' = [spc EXCEPT ![t] = "idle"]
    /\ skey' = [skey EXCEPT ![t] = ""]
    /\ tnow' = [tnow EXCEPT ![t] = 0]
    /\ UNCHANGED <<rate_limit, wall, notSmtpVars>>

SmtpNext ==
    \/ SmtpTick
    \/ \E t \in SmtpThreads : \E key \in Signatures : ShouldSendBegin(t, key)
    \/ \E t \in SmtpThreads : ShouldSendLocked(t)

SmtpSpec == SmtpInit /\ [][SmtpNext]_vars

\* ------------------------ handlers.py, core.py: lifetime of a sink's wrapper
\* A sink is an AsyncHandler object (the wrapper) around a queue, a writer and
\* a listener thread.  The queue handler a logger holds refers to the queue
\* only, the listener to the queue and the writer, the atexit hook to a weak
\* reference: nothing but the caller's own variable refers to the wrapper.
ConvenienceConstructors ==
    {"setup_console_logger", "setup_file_logger", "setup_production_logger", "get_logger"}

\* the stop sentinel in the sink's queue
Sentinel == 0

\* stop() under the lock: nothing when the sink is not started, else the
\* sentinel is put and the caller goes on to wait for the queue to drain
stop(by) ==
    IF ~life_started
       THEN [q |-> life_queue, pc |-> stop_pc, by |-> stopper]
       ELSE [q |-> Append(life_queue, Sentinel), pc |-> "wait", by |-> by]

\* a convenience constructor runs and returns: the sink is created in a local
\* variable, get_queue_handler() starts its listener, the queue handler is
\* attached to the logger, and on return the local variable is gone
ConvenienceConstructor(fn) ==
    /\ wrapper = "none"
    /\ wrapper' = "unreachable"
    /\ made_by' = fn
    /\ life_started' = TRUE
    /\ consumer' = "running"
    /\ UNCHANGED <<life_queue, stop_pc, stopper, life_written, life_emitted, at_exit,
                   writer_open, notLifeVars>>

\* the application creates the sink itself, keeps it in a variable and
\* attaches handler.get_queue_handler() to its logger
DirectUse ==
    /\ wrapper = "none"
    /\ wrapper' = "held"
    /\ made_by' = "application"
    /\ life_started' = TRUE
    /\ consumer' = "running"
    /\ UNCHANGED <<life_queue, stop_pc, stopper, life_written, life_emitted, at_exit,
                   writer_open, notLifeVars>>

\* the application gives up its reference to the sink
DropReference ==
    /\ wrapper = "held"
    /\ stop_pc = "idle"
    /\ wrapper' = "unreachable"
    /\ UNCHANGED <<made_by, life_started, consumer, life_queue, stop_pc, stopper,
                   life_written, life_emitted, at_exit, writer_open, notLifeVars>>

\* AsyncHandler.__del__ when the interpreter finalizes the unreferenced
\* wrapper (at once under reference counting, later under a tracing collector):
\* self.stop()
Finalize ==
    /\ wrapper = "unreachable"
    /\ stop_pc = "idle"
    /\ wrapper' = "collected"
    /\ life_queue' = stop("__del__").q
    /\ stop_pc' = stop("__del__").pc
    /\ stopper' = stop("__del__").by
    /\ UNCHANGED <<made_by, life_started, consumer, life_written, life_emitted, at_exit,
                   writer_open, notLifeVars>>

\* the application calls handler.stop() on the sink it holds
ExplicitStop ==
    /\ wrapper = "held"
    /\ stop_pc = "idle"
    /\ ~at_exit
    /\ life_queue' = stop("stop").q
    /\ stop_pc' = stop("stop").pc
    /\ stopper' = stop("stop").by
    /\ UNCHANGED <<wrapper, made_by, life_started, consumer, life_written, life_emitted,
                   at_exit, writer_open, notLifeVars>>

\* the process exits: the atexit hook cleanup() calls stop() when the weak
\* reference still yields the wrapper
ProcessExit ==
    /\ ~at_exit
    /\ wrapper # "none"
    /\ stop_pc = "idle"
    /\ at_exit' = TRUE
    /\ IF wrapper # "collected"
          THEN /\ life_queue' = stop("atexit").q
               /\ stop_pc' = stop("atexit").pc
               /\ stopper' = stop("atexit").by
          ELSE UNCHANGED <<life_queue, stop_pc, stopper>>
    /\ UNCHANGED <<wrapper, made_by, life_started, consumer, life_written, life_emitted,
                   writer_open, notLifeVars>>

\* stop(): the wait for the queue to drain ends (the queue is empty or the
\* five seconds are over); QueueListener.stop() puts its own sentinel
StopListener ==
    /\ stop_pc = "wait"
    /\ life_queue' = Append(life_queue, Sentinel)
    /\ stop_pc' = "join"
    /\ UNCHANGED <<wrapper, made_by, life_started, consumer, stopper, life_written,
                   life_emitted, at_exit, writer_open, notLifeVars>>

\* stop(): the listener's thread is joined, _started = False, the writer is
\* flushed and closed
StopJoined ==
    /\ stop_pc = "join"
    /\ consumer = "exited"
    /\ life_started' = FALSE
    /\ writer_open' = FALSE
    /\ stop_pc' = "idle"
    /\ UNCHANGED <<wrapper, made_by, consumer, life_queue, stopper, life_written,
                   life_emitted, at_exit, notLifeVars>>

\* the logger emits a record at an admitted severity: its queue handler puts
\* the record on the sink's queue
LoggerEmit ==
    /\ wrapper # "none"
    /\ ~at_exit
    /\ life_emitted < MaxLifeEmit
    /\ life_emitted' = life_emitted + 1
    /\ life_queue' = Append(life_queue, life_emitted + 1)
    /\ UNCHANGED <<wrapper, made_by, life_started, consumer, stop_pc, stopper,
                   life_written, at_exit, writer_open, notLifeVars>>

\* QueueListener._monitor: the sentinel ends the thread, a record is handled
Consume ==
    /\ consumer = "running"
    /\ life_queue # <<>>
    /\ life_queue' = Tail(life_queue)
    /\ IF Head(life_queue) = Sentinel
          THEN /\ consumer' = "exited"
               /\ UNCHANGED life_written
          ELSE /\ life_written' = Append(life_written, Head(life_queue))
               /\ UNCHANGED consumer
    /\ UNCHANGED <<wrapper, made_by, life_started, stop_pc, stopper, life_emitted,
                   at_exit, writer_open, notLifeVars>>

LifeInit ==
    /\ StampIdle
    /\ RaceIdle
    /\ PipeInit /\ TraceIdle /\ CtxIdle /\ RotIdle /\ FltIdle /\ ConIdle /\ SetupIdle
    /\ SigIdle /\ SmtpIdle
    /\ LifeIdle

LifeNext ==
    \/ \E fn \in ConvenienceConstructors : ConvenienceConstructor(fn)
    \/ DirectUse
    \/ DropReference
    \/ Finalize
    \/ ExplicitStop
    \/ ProcessExit
    \/ StopListener
    \/ StopJoined
    \/ LoggerEmit
    \/ Consume

LifeSpec == LifeInit /\ [][LifeNext]_vars

\* ------------------------------ formatter.py: the timestamp of a JSON line
\* A producer's logging call creates the record (LogRecord.__init__ sets
\* record.created = time.time()) and puts it on the sink's queue; the sink's
\* consumer thread later takes it and has the JSONFormatter serialize it.
TimestampFormats == {"iso", "unix"}

\* JSONFormatter._get_timestamp(): now = datetime.now(timezone.utc), rendered
\* as str(now.timestamp()) or as now.isoformat(timespec="microseconds")
_get_timestamp(instant) ==
    IF timestamp_format = "unix"
    THEN [rendering |-> "unix", instant |-> instant]
    ELSE [rendering |-> "iso", instant |-> instant]

\* the rendering of a record's own creation time in the configured format
CreatedTimestamp(record) ==
    [rendering |-> IF timestamp_format = "unix" THEN "unix" ELSE "iso",
     instant |-> record.created]

\* JSONFormatter.format(record) called at the given instant: the mandatory keys
JSONFormatter_format(record, instant) ==
    [timestamp |-> _get_timestamp(instant), message |-> record.message]

\* time passes
ClockTick ==
    /\ clock < MaxStampTime
    /\ clock' = clock + 1
    /\ UNCHANGED <<timestamp_format, json_queue, json_emitted, json_lines, notStampVars>>

\* a producer emits a record: it is created now and enqueued
ProducerEmit ==
    /\ Len(json_emitted) < MaxStampEmit
    /\ LET record == [message |-> Len(json_emitted) + 1, created |-> clock]
       IN  /\ json_queue' = Append(json_queue, record)
           /\ json_emitted' = Append(json_emitted, record)
    /\ UNCHANGED <<clock, timestamp_format, json_lines, notStampVars>>

\* the consumer dequeues the oldest record, serializes it and writes the line
ConsumerWrite ==
    /\ json_queue # <<>>
    /\ json_queue' = Tail(json_queue)
    /\ json_lines' = Append(json_lines, JSONFormatter_format(Head(json_queue), clock))
    /\ UNCHANGED <<clock, timestamp_format, json_emitted, notStampVars>>

\* a JSON formatter as constructed, on a sink whose queue is empty
StampInit ==
    /\ PipeInit /\ TraceIdle /\ CtxIdle /\ RotIdle /\ FltIdle /\ ConIdle /\ SetupIdle
    /\ SigIdle /\ SmtpIdle /\ LifeIdle /\ RaceIdle
    /\ clock = 0
    /\ timestamp_format \in TimestampFormats
    /\ json_queue = <<>>
    /\ json_emitted = <<>>
    /\ json_lines = <<>>

StampNext ==
    \/ ClockTick
    \/ ProducerEmit
    \/ ConsumerWrite

StampSpec == StampInit /\ [][StampNext]_vars

\* ---------------------------------------------------------------- claims
\* the records among the items of a queue
RecordsIn(q) == {x \in Range(q) : x # None}

\* the position at which a record was enqueued
Pos(r) == CHOOSE k \in 1 .. Len(enqLog) : enqLog[k] = r

\* the positions of stop() between taking the lock and releasing it
ShutdownPcs == {"stop_wait", "stop_join", "stop_flush"}

\* C1: when a stop() that performed the shutdown returns, every record that was
\* enqueued before that stop() was invoked has been handed to the writer (the
\* sink has no drop counter that could account for it otherwise).
C1_StopLeavesNoRecordBehind ==
    \A c \in Callers :
        pc[c] = "stop_ret" =>
            \A k \in 1 .. snap[c] : enqLog[k] \in Range(handled)

\* C2: the writer receives records in the order they were enqueued, whichever
\* producers they come from: of two records handed to the writer, the one
\* handed first was enqueued first, and a record being handled was enqueued
\* after every record already handed over.
C2_WriteOrderIsEnqueueOrder ==
    /\ \A a, b \in 1 .. Len(handled) :
           a < b => Pos(handled[a]) < Pos(handled[b])
    /\ \A i \in ListenerIds : \A a \in 1 .. Len(handled) :
           thr[i] = "handling" => Pos(handled[a]) < Pos(cur[i])

C2_Witness ==
    /\ Len(handled) >= 3
    /\ \E a, b \in 1 .. Len(handled) :
           /\ a < b
           /\ handled[a][1] # handled[b][1]
           /\ Pos(handled[a]) > 1

\* C3: a producer that holds a queue handler and has a record to emit can
\* enqueue it in every state of the consumer: idle, in the middle of a write,
\* or terminated.
C3_EmitNeverBlocks ==
    \A p \in Producers :
        (qh /\ Len(enqLog) < MaxEmit) => ENABLED Emit(p)

C3_Witness ==
    /\ \E i \in ListenerIds : thr[i] = "handling"
    /\ RecordsIn(queue) # {}
    /\ Len(queue) >= QueueCapacity
    /\ Len(enqLog) < MaxEmit

\* C4: once stop() has left its drain loop (the queue is empty or the deadline
\* has passed) it proceeds without waiting for the consumer: its next step is
\* enabled whatever the consumer is doing.
C4_StopNeverWaitsForConsumer ==
    \A c \in Callers : pc[c] = "stop_join" => ENABLED StopJoin(c)

\* C5: a stop() that finds the sink stopped is a no-op: it returns at once and
\* leaves the queue, the listener, the flags, the threads and the writer (no
\* flush, no close) exactly as they were.
C5_SecondStopIsNoOp ==
    [][\A c \in Callers :
          (pc[c] = "stop_lock" /\ ~started /\ pc'[c] # pc[c]) =>
              (pc'[c] = "stop_noop_ret" /\ UNCHANGED sinkVars /\ UNCHANGED lock)]_vars

C5_Witness ==
    \E c \in Callers : pc[c] = "stop_noop_ret" /\ closeCalls >= 1 /\ ~started

\* C6: with concurrent stop() calls at most one caller is inside the shutdown
\* sequence at a time, and every stop() call returns.
C6_ConcurrentStopsConverge ==
    /\ [](Cardinality({c \in Callers : pc[c] \in ShutdownPcs}) <= 1)
    /\ \A c \in Callers : (pc[c] = "stop_lock") ~> (pc[c] = "idle")

\* C7: once a stop() has begun its shutdown, no record enters the queue.
C7_NoEnqueueAfterStopBegan ==
    [][(\E c \in Callers : pc[c] \in ShutdownPcs) =>
          RecordsIn(queue') \subseteq RecordsIn(queue)]_vars

\* C8: a failure while writing a record never terminates the consumer thread.
C8_ConsumerSurvivesFailure ==
    \A i \in ListenerIds : thr[i] # "died"

\* C9 (as stated): the queue never holds more records than its capacity.
C9_QueueWithinCapacity ==
    Cardinality(RecordsIn(queue)) <= QueueCapacity

\* C9 (amended): the queue is unbounded and nothing is discarded at enqueue:
\* every record emit() was called with is in the queue, in the hands of a
\* consumer thread or has been handed to the writer, however many records the
\* queue already holds.
C9_NoRecordDiscardedAtEnqueue ==
    \A k \in 1 .. Len(enqLog) :
        \/ enqLog[k] \in RecordsIn(queue)
        \/ \E i \in ListenerIds : thr[i] = "handling" /\ cur[i] = enqLog[k]
        \/ enqLog[k] \in Range(handled)

C9_Witness ==
    Cardinality(RecordsIn(queue)) > QueueCapacity

\* C10: at every moment at most one listener thread of the sink is alive.
C10_AtMostOneConsumer ==
    Cardinality(LiveThreads) <= 1

C10_Witness ==
    \E c \in Callers : pc[c] = "gqh_lock" /\ started /\ Alive(listener)

\* ------------------------------------------------ claims: trace context
\* the innermost trace object open in task t
Innermost(t) == scopes[t][Len(scopes[t])]

\* the context task t would read if only its own scopes decided it
OwnContext(t) == IF scopes[t] = <<>> THEN NoContext ELSE Innermost(t).context

\* the five trace fields of a context
TraceFieldNames ==
    {"trace_id", "span_id", "parent_span_id", "correlation_id", "session_id"}

\* C11: within a task, entering a scope saves the context that was ambient
\* and makes the new context ambient, and each exit (normal or by an
\* exception) makes the ambient context the one that was ambient immediately
\* before the matching entry: none after the outermost exit if it was none.
C11_ExitRestoresPrevious ==
    [][\A t \in Tasks :
          /\ Len(scopes'[t]) > Len(scopes[t]) =>
                 /\ scopes'[t][Len(scopes'[t])].previous_context = get_current_context(t)
                 /\ get_current_context(t)' = scopes'[t][Len(scopes'[t])].context
          /\ Len(scopes'[t]) < Len(scopes[t]) =>
                 get_current_context(t)' = Innermost(t).previous_context]_vars

C11_Witness ==
    \E t \in Tasks : \E w \in Range(logq) \cup Range(written) :
        /\ Len(scopes[t]) = 1
        /\ w.producer = t
        /\ w.ambient.parent_span_id = scopes[t][1].context.span_id
        /\ get_current_context(t) = scopes[t][1].context

\* C12: the context a task reads is decided by its own scope entries and
\* exits only: the context of its innermost open scope, and none when it has
\* no scope open, whatever the other tasks of its thread do.
C12_TaskReadsOnlyOwnScopes ==
    \A t \in Tasks : get_current_context(t) = OwnContext(t)

\* C13: a scope entry or exit in one thread leaves the context read in every
\* other thread as it was, and a thread that runs a single task reads the
\* context of its own innermost open scope, or none.
C13_ThreadsAreIsolated ==
    [][/\ \A t, u \in Tasks :
              (scopes'[t] # scopes[t] /\ ThreadOf[u] # ThreadOf[t]) =>
                  get_current_context(u)' = get_current_context(u)
       /\ \A u \in Tasks :
              (\A v \in Tasks : ThreadOf[v] = ThreadOf[u] => v = u) =>
                  get_current_context(u)' = OwnContext(u)']_vars

C13_Witness ==
    \E t, u \in Tasks :
        /\ ThreadOf[t] # ThreadOf[u]
        /\ scopes[t] # <<>> /\ scopes[u] # <<>>
        /\ get_current_context(t) = Innermost(t).context
        /\ get_current_context(u) = Innermost(u).context
        /\ get_current_context(t) # get_current_context(u)

\* C19: a written record carries the trace fields of the context that was
\* ambient in the producer when it logged the record (each field that context
\* has, with its value, and no trace field when no context was ambient), also
\* when the producer's scope has exited or been replaced before the write.
C19_FieldsAreThoseAtEmit ==
    \A i \in 1 .. Len(written) :
        LET w == written[i]
        IN  IF w.ambient = NoContext
               THEN w.fields = EmptyDict
               ELSE \A k \in TraceFieldNames :
                        IF Truthy(w.ambient[k])
                           THEN k \in DOMAIN w.fields /\ w.fields[k] = w.ambient[k]
                           ELSE k \notin DOMAIN w.fields

C19_Witness ==
    \E i \in 1 .. Len(written) :
        /\ written[i].ambient # NoContext
        /\ get_current_context(written[i].producer) # written[i].ambient
        /\ written[i].fields["span_id"] = written[i].ambient.span_id

\* ------------------------------------------- claims: context functions
\* an identifier that _generate_id() returned during the call
Fresh(v) == \E k \in 0 .. nextId - 1 : v = _generate_id(k)

\* C14: the child c = p.child_span() has p's trace_id, correlation_id and
\* session_id, p's span_id as parent_span_id, a span_id other than p's, and
\* an extra map of its own with the content of p's; extra fields given to
\* trace(parent=p, ...) go to the child's map and leave p's as it was.
C14_ChildSpan ==
    /\ op = "child_span" =>
           /\ outCtx.trace_id = args.parent.trace_id
           /\ outCtx.parent_span_id = args.parent.span_id
           /\ outCtx.span_id # args.parent.span_id
           /\ outCtx.correlation_id = args.parent.correlation_id
           /\ outCtx.session_id = args.parent.session_id
           /\ outCtx.extra # args.parent.extra
           /\ dicts[outCtx.extra] = dicts[args.parent.extra]
    /\ (op = "trace" /\ args.parent # NoContext) =>
           dicts[args.parent.extra] \in InputExtras

C14_Witness ==
    /\ op = "child_span"
    /\ dicts[args.parent.extra] # EmptyDict
    /\ Truthy(args.parent.correlation_id)
    /\ Truthy(args.parent.parent_span_id)
    /\ args.parent.trace_id # args.parent.span_id

\* C15 (as stated): for any context c1, the context c2 parsed from c1's
\* outbound headers has c1's trace_id, correlation_id and session_id, c1's
\* span_id as parent_span_id and a freshly generated span_id other than c1's.
C15_RoundTripPreservesIds ==
    op = "round_trip" =>
        /\ outCtx.trace_id = args.parent.trace_id
        /\ outCtx.correlation_id = args.parent.correlation_id
        /\ outCtx.session_id = args.parent.session_id
        /\ outCtx.parent_span_id = args.parent.span_id
        /\ Fresh(outCtx.span_id)
        /\ outCtx.span_id # args.parent.span_id

\* C15 (amended): c2 has c1's trace_id, c1's span_id as parent_span_id and a
\* freshly generated span_id other than c1's; it has c1's correlation_id and
\* session_id when that is none or a non-empty string, and none when c1's is
\* the empty string (which is not sent).
C15_RoundTripPreservesPresentIds ==
    op = "round_trip" =>
        /\ outCtx.trace_id = args.parent.trace_id
        /\ outCtx.correlation_id = IF Truthy(args.parent.correlation_id)
                                      THEN args.parent.correlation_id ELSE None
        /\ outCtx.session_id = IF Truthy(args.parent.session_id)
                                  THEN args.parent.session_id ELSE None
        /\ outCtx.parent_span_id = args.parent.span_id
        /\ Fresh(outCtx.span_id)
        /\ outCtx.span_id # args.parent.span_id

C15_Witness ==
    /\ op = "round_trip"
    /\ Truthy(args.parent.correlation_id)
    /\ args.parent.session_id = Str(0)
    /\ outCtx.correlation_id = args.parent.correlation_id
    /\ outCtx.parent_span_id = args.parent.span_id

\* C16: a trace scope derives a child span of the parent when a parent is
\* supplied, also when a header carrier is supplied as well; otherwise it
\* extracts the context from the carrier when one is supplied; otherwise it
\* creates a fresh root context.
C16_ParentBeforeHeaders ==
    op = "trace" =>
        LET claimed == trace_init_parent_first(args, 0, Len(dicts))
        IN  /\ outCtx.trace_id = claimed.trace_id \/
                   (Fresh(outCtx.trace_id) /\ Fresh(claimed.trace_id))
            /\ outCtx.parent_span_id = claimed.parent_span_id
            /\ outCtx.correlation_id = claimed.correlation_id
            /\ outCtx.session_id = claimed.session_id
            /\ Fresh(outCtx.span_id)

\* header names without regard to case
Lower(k) ==
    CASE k \in {"X-Trace-ID", "x-trace-id"} -> "x-trace-id"
      [] k = "X-Span-ID" -> "x-span-id"
      [] k = "X-Correlation-ID" -> "x-correlation-id"
      [] k = "X-Session-Id" -> "x-session-id"
      [] OTHER -> k

\* the values a carrier holds under a header name, whatever its capitalization
ValuesOf(h, name) == {h[k] : k \in {j \in DOMAIN h : Lower(j) = name}}

\* C17: parsing an inbound carrier never fails and matches the trace header
\* names without regard to case: the context has the carrier's trace id, or a
\* freshly generated one when the carrier has none; the carrier's span id as
\* parent_span_id, its correlation and session ids, none for each the carrier
\* lacks; unknown keys change nothing.
C17_ParsingIsCaseInsensitive ==
    op = "from_headers" =>
        /\ IF ValuesOf(args.headers, "x-trace-id") # {}
              THEN outCtx.trace_id \in ValuesOf(args.headers, "x-trace-id")
              ELSE Fresh(outCtx.trace_id)
        /\ Fresh(outCtx.span_id)
        /\ outCtx.parent_span_id \in
               IF ValuesOf(args.headers, "x-span-id") # {}
                  THEN ValuesOf(args.headers, "x-span-id") ELSE {None}
        /\ outCtx.correlation_id \in
               IF ValuesOf(args.headers, "x-correlation-id") # {}
                  THEN ValuesOf(args.headers, "x-correlation-id") ELSE {None}
        /\ outCtx.session_id \in
               IF ValuesOf(args.headers, "x-session-id") # {}
                  THEN ValuesOf(args.headers, "x-session-id") ELSE {None}

\* C18: the outbound header mapping of a context has the keys "X-Trace-Id" and
\* "X-Span-Id" always, "X-Parent-Span-Id", "X-Correlation-Id" and
\* "X-Session-Id" each exactly when the field is present, and no other key.
C18_OutboundKeys ==
    op = "headers" =>
        DOMAIN outHeaders =
            {"X-Trace-Id", "X-Span-Id"}
            \cup (IF Truthy(args.parent.parent_span_id) THEN {"X-Parent-Span-Id"} ELSE {})
            \cup (IF Truthy(args.parent.correlation_id) THEN {"X-Correlation-Id"} ELSE {})
            \cup (IF Truthy(args.parent.session_id) THEN {"X-Session-Id"} ELSE {})

\* --------------------------------------------- claims: rotating file sink
\* C20: after any number of rotations of a file sink with backup_count = B,
\* for every B >= 0, the files of the sink on disk (the active file and the
\* archives) number at most B + 1.
C20_FilesWithinBackupCount ==
    Cardinality(DOMAIN disk) <= backup_count + 1

\* the lines 1 .. n in the order they were emitted
LinesUpTo(n) == [i \in 1 .. n |-> i]

\* C21: with max_bytes <= 0 the file sink never rotates: the active file is
\* the only file and holds every record emitted so far, in order, however
\* many they are
C21_NoRotationWhenDisabled ==
    max_bytes <= 0 =>
        /\ rotations = 0
        /\ DOMAIN disk = {Active}
        /\ disk[Active] = LinesUpTo(nlines)

\* a sink with rotation disabled whose active file has grown past every size
\* trigger of the model
C21_Witness ==
    /\ max_bytes <= 0
    /\ nlines > MaxBytes
    /\ Len(disk[Active]) = nlines

\* C22: with compression off and backup_count = B >= 1, once at least B
\* rotations have completed exactly the B archives base.1 .. base.B exist,
\* base.1 the most recent, so the B most recently rotated segments are on disk
C22_KeepsBackupCountArchives ==
    (~compress /\ backup_count >= 1 /\ rotations >= backup_count /\ failures = 0) =>
        /\ DOMAIN disk = {Active} \cup {_get_backup_name(i) : i \in 1 .. backup_count}
        /\ \A i \in 1 .. backup_count - 1 :
              \A x \in Range(disk[_get_backup_name(i)]) :
                 \A y \in Range(disk[_get_backup_name(i + 1)]) : y < x

\* C23: with compression on and backup_count = B, while fewer than B rotations
\* have occurred every line ever written is still on disk, in the active file
\* or in an archive
C23_CompressedArchivesKeepEveryLine ==
    (compress /\ rotations < backup_count /\ failures = 0) =>
        \A n \in 1 .. nlines : \E f \in DOMAIN disk : n \in Range(disk[f])

\* C24: the record whose arrival triggers a rotation is never silently lost:
\* whether the rotation succeeds or fails, after the emit the record is the
\* last line of the active file (the sink has no drop counter to increment
\* instead)
C24_TriggeringRecordIsWritten ==
    [][(_should_rotate /\ nlines' = nlines + 1) =>
          /\ Active \in DOMAIN disk'
          /\ Len(disk'[Active]) > 0
          /\ disk'[Active][Len(disk'[Active])] = nlines']_vars

\* the calls before call i that admitted a record of the same key no more
\* than interval_seconds before it
AdmittedBefore(i) ==
    {j \in 1 .. i - 1 :
        /\ flog[j].filter = "rate" /\ flog[j].result = "keep"
        /\ flog[j].key = flog[i].key
        /\ flog[i].time - flog[j].time <= interval_seconds}

\* C25: of the records passed through a rate-limit filter (k, w), at most k of
\* one key are admitted within any window of length w, and a record is
\* admitted exactly when fewer than k records of its key were admitted in the
\* w seconds before it
C25_RateLimit ==
    /\ \A key \in Keys : \A t \in 0 .. MaxTime :
          Cardinality({i \in 1 .. Len(flog) :
                          /\ flog[i].filter = "rate" /\ flog[i].result = "keep"
                          /\ flog[i].key = key
                          /\ flog[i].time \in t .. t + interval_seconds})
             <= max_per_interval
    /\ \A i \in 1 .. Len(flog) :
          (flog[i].filter = "rate" /\ flog[i].result # "raise") =>
             (flog[i].result = "keep"
                 <=> Cardinality(AdmittedBefore(i)) < max_per_interval)

\* a key has had a full window (k records admitted at one instant, the next
\* one dropped) and a record of it was admitted again once the window passed
C25_Witness ==
    \E i, j, l \in 1 .. Len(flog) :
        /\ i < j /\ j < l
        /\ flog[i].key = flog[j].key /\ flog[j].key = flog[l].key
        /\ flog[i].result = "keep" /\ flog[j].result = "drop" /\ flog[l].result = "keep"
        /\ flog[i].time = flog[j].time
        /\ flog[l].time > flog[i].time + interval_seconds

\* C29: an exception raised inside a filter (by a rate-limit key function)
\* never reaches the caller of the logging call: no filter call ends by
\* raising
C29_FilterExceptionsAreContained ==
    \A i \in 1 .. Len(flog) : flog[i].result # "raise"

\* the override configured for the severity if one exists, the default rate
\* otherwise
EffectiveRate(levelno) ==
    IF levelno \in DOMAIN level_overrides THEN level_overrides[levelno]
    ELSE sample_rate

\* C26: the sampling filter keeps a record exactly when the variate drawn for
\* it is less than the effective rate of its severity; an effective rate of
\* 1.0 keeps every record and one of 0.0 keeps none
C26_SamplingKeepsBelowRate ==
    \A i \in 1 .. Len(flog) :
        flog[i].filter = "sample" =>
            /\ flog[i].result = "keep" <=> flog[i].variate < EffectiveRate(flog[i].level)
            /\ EffectiveRate(flog[i].level) = 10 => flog[i].result = "keep"
            /\ EffectiveRate(flog[i].level) = 0 => flog[i].result = "drop"

\* a severity with an override of 0.0 under a default of 1.0 lost a record,
\* and a severity without override kept one
C26_Witness ==
    /\ sample_rate = 10
    /\ \E i, j \in 1 .. Len(flog) :
          /\ flog[i].filter = "sample" /\ flog[j].filter = "sample"
          /\ flog[i].level \in DOMAIN level_overrides
          /\ level_overrides[flog[i].level] = 0
          /\ flog[i].result = "drop"
          /\ flog[j].level \notin DOMAIN level_overrides
          /\ flog[j].result = "keep"

\* the records (by position in the history) written to a stream
WrittenTo(name) == Range(streams[name])

\* C27: every record the console sink writes (those at or above its level)
\* goes, with split-by-severity, to stderr if its severity is ERROR or more
\* and to stdout otherwise, and without it to the single configured stream;
\* no record is written to the other stream
C27_ConsoleRouting ==
    \A i \in 1 .. Len(clog) :
        clog[i] >= console_level =>
            IF split_errors /\ clog[i] >= ERROR
            THEN i \in WrittenTo("stderr") /\ i \notin WrittenTo("stdout")
            ELSE i \in WrittenTo("stdout") /\ i \notin WrittenTo("stderr")

\* a splitting console sink has written an ERROR record and a WARNING record
C27_Witness ==
    /\ split_errors
    /\ \E i, j \in 1 .. Len(clog) :
          /\ clog[i] = ERROR /\ i \in WrittenTo("stderr")
          /\ clog[j] = 30 /\ j \in WrittenTo("stdout")

\* C28: each convenience constructor returns, together with the logger, a
\* handle to every sink it created
C28_ConstructorsReturnSinks ==
    ret # NoReturn => ret.handles = created /\ created # {}

\* C30: an emit inside a signal handler completes without deadlock even when
\* the signal interrupted the same thread inside the queue's enqueue critical
\* section: the handler's emit never waits for the mutex while the frame it
\* interrupted, which cannot run before the handler returns, is the holder
C30_SignalHandlerEmitNeverDeadlocks ==
    ~(hpc = "acquire" /\ mutex = "main")

\* C31: when stop() shuts down a started sink, the step that calls the
\* writer's flush (at most three times) and then its close (once) is taken
\* only when no consumer thread is alive, it is the last step of stop() before
\* it returns, and it leaves the writer's file handle closed
C31_FlushAndCloseAfterConsumerExit ==
    [][(flushCalls' # flushCalls \/ closeCalls' # closeCalls) =>
          /\ \A i \in ListenerIds : thr[i] \notin {"running", "handling"}
          /\ flushCalls' - flushCalls \in 1 .. 3
          /\ closeCalls' = closeCalls + 1
          /\ ~wopen'
          /\ \E c \in Callers : pc[c] = "stop_flush" /\ pc'[c] = "stop_ret"]_vars

\* a stop() of a started sink that has written a record is about to return:
\* the consumer has exited, the writer was flushed and closed
C31_Witness ==
    /\ \E c \in Callers : pc[c] = "stop_ret"
    /\ handled # <<>>
    /\ flushCalls = 3 /\ closeCalls = 1
    /\ ~wopen
    /\ \E i \in ListenerIds : thr[i] = "exited"

\* C32: a file sink with rotation enabled rotates before writing a record
\* exactly when the active file's byte count plus the serialized length of
\* the record exceeds max_bytes
C32_RotatesWhenRecordWouldOverflow ==
    [][(max_bytes > 0 /\ stream /\ nlines' = nlines + 1 /\ failures' = failures) =>
          (rotations' = rotations + 1
              <=> Size(disk[Active]) + reclen'[nlines'] > max_bytes)]_vars

\* C33: after a rotation that failed with the file handle closed, the next
\* emit reopens the active file: a record emitted while the handle is closed
\* and no file operation fails is written to the active file
C33_NextEmitReopens ==
    [][(~stream /\ nlines' = nlines + 1 /\ failures' = failures) =>
          /\ stream'
          /\ Active \in DOMAIN disk'
          /\ disk'[Active] # <<>>
          /\ disk'[Active][Len(disk'[Active])] = nlines']_vars

\* C35: with rate_limit > 0 the SMTP sink approves at most one send per error
\* signature within any interval of rate_limit seconds: two approvals of one
\* signature are at least rate_limit apart, whatever other signatures were
\* seen in between and however the calling threads interleave
C35_OneSendPerSignaturePerInterval ==
    rate_limit > 0 =>
        \A i, j \in 1 .. Len(approved) :
            (i < j /\ approved[i][1] = approved[j][1]) =>
                approved[j][2] - approved[i][2] >= rate_limit

\* C34: the rate-limit filter's per-key table never holds more keys than its
\* cap (a record with a new key at the cap evicts the least recently used key)
C34_TableWithinCap ==
    Cardinality(DOMAIN _state) <= TableCap

\* the kinds of the sinks attached to a logger
KindsOf(name) == {sinks[attached[name][i]] : i \in 1 .. Len(attached[name])}

\* C36: after setup_production_logger(name, console, file_path) the logger
\* has a console sink if and only if console is true and a file sink if and
\* only if file_path is given
C36_ProductionLoggerSinks ==
    call.fn = "setup_production_logger" =>
        /\ "console" \in KindsOf(call.name) <=> call.console
        /\ "file" \in KindsOf(call.name) <=> call.file_path

\* C37: whenever the sink reports itself started and no stop() is in progress
\* (and no write has raised into the consumer), the current listener's thread
\* is alive, so that it dequeues and writes what is enqueued from then on
C37_StartedHasLiveConsumer ==
    (started /\ lock = "free" /\ \A i \in ListenerIds : thr[i] # "died")
        => Alive(listener)

\* C38: while neither an explicit stop() nor the exit of the process has
\* stopped the sink a convenience constructor made, a record the logger has
\* emitted and that is not yet written still has a running consumer
C38_ConsumerOutlivesWrapper ==
    (/\ made_by \in ConvenienceConstructors
     /\ stopper \notin {"stop", "atexit"} /\ ~at_exit
     /\ \E k \in 1 .. Len(life_queue) : life_queue[k] # Sentinel)
        => consumer = "running"

\* C39: when several producer threads pass records through one rate-limit
\* filter (k, w) concurrently, at most k records of one key are admitted
\* within any window of length w
C39_ConcurrentRateLimit ==
    \A key \in Keys : \A t \in 0 .. MaxTime :
        Cardinality({i \in 1 .. Len(flog) :
                        /\ flog[i].result = "keep" /\ flog[i].key = key
                        /\ flog[i].time >= t /\ flog[i].time <= t + interval_seconds})
           <= max_per_interval

\* C40: the "timestamp" of every written JSON line is the wall-clock time at
\* which the producer emitted the line's record, whatever time the record
\* spent in the queue
C40_TimestampIsEmitTime ==
    \A i \in 1 .. Len(json_lines) :
        json_lines[i].timestamp = CreatedTimestamp(json_emitted[i])

====
